---------------------------- MODULE Spec2Model ----------------------------
(***************************************************************************)
(* The delta engine of coreos-diskimage-rehydrator: the bup rolling        *)
(* checksum (src/src/bupsplit.rs) and the rsync-style chunker, delta       *)
(* matcher, literal deduplication and patch writer (src/src/rsync.rs);     *)
(* and the two commands of src/src/main.rs, rehydrate and build_dehydrate, *)
(* as state machines over the files they create and the bytes they write   *)
(* to standard output.                                                     *)
(*                                                                         *)
(* Bytes are the integers 0..255 and a buffer is a sequence of bytes.      *)
(* TLC's integers are 32-bit signed, so a u32 is kept as a pair            *)
(* <<high 16 bits, low 16 bits>> and the wrapping operations are written   *)
(* on the two halves.  Offsets and lengths (u64 / usize in the source)     *)
(* stay far below 2^31 and are plain integers.  Indices into a Vec are     *)
(* 0-based as in the source; the element i of a Vec v is v[i + 1].         *)
(***************************************************************************)
EXTENDS Integers, Sequences, FiniteSets, TLC

VARIABLES
  srcBuf,    \* the source buffer handed to rollsum_delta / create_patchfile
  destBuf,   \* the destination buffer
  pc,        \* which function has run: "start", "chunks", "delta", "patch";
             \* or the position inside rehydrate / build_dehydrate
  chunkBuf,  \* the buffer rollsum_chunks_crc32 was called on
  chunkSet,  \* rollsum_chunks_crc32's result: ChunkId -> Vec<Chunk>
  deltaRes,  \* rollsum_delta's result (RollsumDelta)
  patchRes,  \* create_patchfile's locals when it returns: delta, patch, buflen
  outBytes,  \* the bytes create_patchfile wrote into the zstd encoder
  rollsum,   \* a Rollsum (bupsplit.rs), rolled over the bytes of chunkBuf
  opts,         \* the command's options (RehydrateOpts or DehydrateOpts)
  riverdelta,   \* the parsed stream (RiverDelta): which artifacts it has
  target,       \* rehydrate's OutputTarget: "Directory", "Stdout" or "Tar"
  stdoutStream, \* what the process has written to standard output, in order
  destDir,      \* the files in the destination directory
  workDir,      \* the files the command created in the working directory
  tmpDir,       \* the files in rehydrate's temporary directory
  disks,        \* the work the parallel iterator has not done yet
  result,       \* how the command ended: "Ok", an error message, or "panic"
  incomplete,   \* the files of the working directory that do not have all
                \* their content on disk yet
  writers       \* the open BufWriters of build_download's workers

rsyncVars == <<srcBuf, destBuf, chunkBuf, chunkSet, deltaRes, patchRes, outBytes,
               rollsum>>

fsVars == <<incomplete, writers>>

mainVars == <<opts, riverdelta, target, stdoutStream, destDir, workDir, tmpDir,
              disks, result, incomplete, writers>>

vars == <<srcBuf, destBuf, pc, chunkBuf, chunkSet, deltaRes, patchRes, outBytes,
          rollsum, opts, riverdelta, target, stdoutStream, destDir, workDir, tmpDir,
          disks, result, incomplete, writers>>

\* No command of main.rs is running
NoOpts == [command |-> "none"]
NoRiverDelta == [parsed |-> FALSE]
Running == "running"

MainIdle ==
  /\ opts = NoOpts
  /\ riverdelta = NoRiverDelta
  /\ target = "none"
  /\ stdoutStream = <<>>
  /\ destDir = {}
  /\ workDir = {}
  /\ tmpDir = {}
  /\ disks = {}
  /\ result = Running
  /\ incomplete = {}
  /\ writers = {}

---------------------------------------------------------------------------
(* u32 arithmetic on <<hi, lo>> halves.                                    *)

Half == 2^16

U32(n) == <<n \div Half, n % Half>>

U32_MAX == <<Half - 1, Half - 1>>

wrapping_add(a, b) ==
  LET lo == a[2] + b[2]
  IN  <<(a[1] + b[1] + (lo \div Half)) % Half, lo % Half>>

wrapping_sub(a, b) ==
  LET lo == a[2] - b[2]
  IN  <<(a[1] - b[1] + (lo \div Half)) % Half, lo % Half>>

\* x & mask for a mask 2^k - 1 with k <= 16
BitAndLow(x, mask) == x[2] % (mask + 1)

\* a ^ b, bit by bit
RECURSIVE BitXor(_, _)
BitXor(a, b) ==
  IF a = 0 THEN b
  ELSE IF b = 0 THEN a
  ELSE ((a + b) % 2) + 2 * BitXor(a \div 2, b \div 2)

\* HashMap::new() / BTreeMap::new()
EmptyMap == [k \in {} |-> k]

\* The function f as an explicit table, computed once (TLC evaluates the body
\* of [x \in S |-> e] anew at each application otherwise)
Table(f) == f @@ EmptyMap

\* a ^ b for 4-bit a and b, tabulated at 16 * a + b
xor_nibble == Table([x \in 0..255 |-> BitXor(x \div 16, x % 16)])

\* a ^ b for 8-bit and for 16-bit a and b, from the table
Xor8(a, b) ==
  16 * xor_nibble[16 * (a \div 16) + (b \div 16)] + xor_nibble[16 * (a % 16) + (b % 16)]

Xor16(a, b) == 256 * Xor8(a \div 256, b \div 256) + Xor8(a % 256, b % 256)

Xor32(a, b) == <<Xor16(a[1], b[1]), Xor16(a[2], b[2])>>

Shr32(a, k) ==
  <<a[1] \div 2^k, (a[1] % 2^k) * 2^(16 - k) + (a[2] \div 2^k)>>

None == [is_some |-> FALSE]
Some(x) == [is_some |-> TRUE, val |-> x]

Min(a, b) == IF a < b THEN a ELSE b

---------------------------------------------------------------------------
(* bupsplit.rs                                                             *)

ROLLSUM_CHAR_OFFSET == 31
BUP_BLOBBITS == 13
BUP_BLOBSIZE == 2^BUP_BLOBBITS
BUP_WINDOWBITS == 7
\* 1 << BUP_WINDOWBITS - 1, where Rust's - binds tighter than <<
BUP_WINDOWSIZE == 2^(BUP_WINDOWBITS - 1)

Rollsum_new ==
  [ s1     |-> U32(BUP_WINDOWSIZE * ROLLSUM_CHAR_OFFSET),
    s2     |-> U32(BUP_WINDOWSIZE * (BUP_WINDOWSIZE - 1) * ROLLSUM_CHAR_OFFSET),
    window |-> [i \in 0..(64 - 1) |-> 0],   \* [0; 64]
    wofs   |-> 0 ]

\* Faulty variant of Rollsum_add: the dropped byte is not taken out of s1
Rollsum_add_keep(r, drop, add) ==
  LET s1 == wrapping_add(r.s1, U32(add))
      s2 == wrapping_add(r.s2,
              wrapping_sub(s1, U32(BUP_WINDOWSIZE * (drop + ROLLSUM_CHAR_OFFSET))))
  IN  [r EXCEPT !.s1 = s1, !.s2 = s2]

Rollsum_add(r, drop, add) ==
  LET s1 == wrapping_add(r.s1, wrapping_sub(U32(add), U32(drop)))
      s2 == wrapping_add(r.s2,
              wrapping_sub(s1, U32(BUP_WINDOWSIZE * (drop + ROLLSUM_CHAR_OFFSET))))
  IN  [r EXCEPT !.s1 = s1, !.s2 = s2]

Rollsum_roll(r, ch) ==
  LET wofs == r.wofs
      dval == r.window[wofs]
      r2   == Rollsum_add(r, dval, ch)
  IN  [r2 EXCEPT !.window[wofs] = ch,
                 !.wofs = (r.wofs + 1) % BUP_WINDOWSIZE]

Rollsum_digest(r) == <<r.s1[2], BitAndLow(r.s2, Half - 1)>>

\* The loop of bupsplit_find_ofs over the offsets lo .. hi-1 of sbuf, from the
\* state r.  The range is walked left to right, first half before second half
\* (which keeps the evaluation depth logarithmic in the length); the walk stops
\* at the first offset whose rolled state satisfies the boundary test.
RECURSIVE find_ofs_loop(_, _, _, _)
find_ofs_loop(r, sbuf, lo, hi) ==
  IF lo >= hi THEN [r |-> r, ret |-> None]
  ELSE IF hi - lo = 1 THEN
    LET r2 == Rollsum_roll(r, sbuf[lo + 1])
    IN  IF BitAndLow(r2.s2, BUP_BLOBSIZE - 1) = BitAndLow(U32_MAX, BUP_BLOBSIZE - 1)
        THEN [r |-> r2, ret |-> Some(lo + 1)]
        ELSE [r |-> r2, ret |-> None]
  ELSE
    LET mid   == (lo + hi) \div 2
        first == find_ofs_loop(r, sbuf, lo, mid)
    IN  IF first.ret.is_some THEN first
        ELSE find_ofs_loop(first.r, sbuf, mid, hi)

bupsplit_find_ofs(sbuf) == find_ofs_loop(Rollsum_new, sbuf, 0, Len(sbuf)).ret

---------------------------------------------------------------------------
(* crc32fast::Hasher (rsync.rs:46-48): the standard CRC-32 (reflected      *)
(* polynomial 0xEDB88320, initial value and final xor 0xFFFFFFFF),         *)
(* computed with the usual 256-entry table.                                *)

CRC_POLY == <<60856, 33568>>   \* 0xEDB8, 0x8320

RECURSIVE crc_table_entry(_, _)
crc_table_entry(c, k) ==
  IF k = 0 THEN c
  ELSE crc_table_entry(IF c[2] % 2 = 1 THEN Xor32(CRC_POLY, Shr32(c, 1))
                                      ELSE Shr32(c, 1), k - 1)

crc_table == Table([n \in 0..255 |-> crc_table_entry(<<0, n>>, 8)])

crc_update_byte(crc, byte) ==
  Xor32(crc_table[Xor8(crc[2] % 256, byte)], Shr32(crc, 8))

\* Hasher::update over the bytes lo .. hi-1 (0-based) of b, left half first
RECURSIVE crc_update(_, _, _, _)
crc_update(crc, b, lo, hi) ==
  IF lo >= hi THEN crc
  ELSE IF hi - lo = 1 THEN crc_update_byte(crc, b[lo + 1])
  ELSE
    LET mid   == (lo + hi) \div 2
        first == crc_update(crc, b, lo, mid)
    IN  IF first[1] >= 0 THEN crc_update(first, b, mid, hi) ELSE first

crc32(b) == Xor32(crc_update(U32_MAX, b, 0, Len(b)), U32_MAX)

---------------------------------------------------------------------------
(* rsync.rs: chunking                                                      *)

ROLLSUM_BLOB_MAX == 8192 * 4
HEADER == <<68, 69, 76, 84>>   \* b"DELT"

\* Faulty variant of entry_or_default_push: the chunk goes to the front of
\* the bucket's Vec
entry_or_default_push_front(map, chunkid, chunk) ==
  IF chunkid \in DOMAIN map
  THEN [map EXCEPT ![chunkid] = <<chunk>> \o @]
  ELSE map @@ (chunkid :> <<chunk>>)

\* ret.entry(chunkid).or_default().push(chunk)
entry_or_default_push(map, chunkid, chunk) ==
  IF chunkid \in DOMAIN map
  THEN [map EXCEPT ![chunkid] = Append(@, chunk)]
  ELSE map @@ (chunkid :> <<chunk>>)

\* Lines 45-60: the chunk buf_iter[..ofs] is filed under its ChunkId
push_chunk(map, start, sub_buf) ==
  entry_or_default_push(map,
                        [crc32 |-> crc32(sub_buf), len |-> Len(sub_buf)],
                        [start |-> start, buf |-> sub_buf])

\* Lines 34-43: the ofs of this round; found is bupsplit_find_ofs's answer
\* (not asked for once done is set)
chunk_ofs(buf_iter, done, found) ==
  IF done THEN Len(buf_iter)
  ELSE IF found.is_some THEN found.val
  ELSE Len(buf_iter)

\* The while loop of rollsum_chunks_crc32 with its locals; each operator
\* takes what the loop has computed so far as arguments
RECURSIVE rollsum_chunks_loop(_, _, _, _)

\* Faulty variant of chunk_cut: start is not advanced past the chunk
chunk_cut_stuck(buf_iter, done, start, map, ofs) ==
  rollsum_chunks_loop(SubSeq(buf_iter, ofs + 1, Len(buf_iter)), done,
                      start,
                      push_chunk(map, start, SubSeq(buf_iter, 1, ofs)))

chunk_cut(buf_iter, done, start, map, ofs) ==
  rollsum_chunks_loop(SubSeq(buf_iter, ofs + 1, Len(buf_iter)), done,
                      start + ofs,
                      push_chunk(map, start, SubSeq(buf_iter, 1, ofs)))

\* Faulty variant of chunk_round: ofs is not capped at ROLLSUM_BLOB_MAX
chunk_round_uncapped(buf_iter, done, start, map, found) ==
  chunk_cut(buf_iter, done \/ ~found.is_some, start, map,
            chunk_ofs(buf_iter, done, found))

chunk_round(buf_iter, done, start, map, found) ==
  chunk_cut(buf_iter, done \/ ~found.is_some, start, map,
            Min(chunk_ofs(buf_iter, done, found), ROLLSUM_BLOB_MAX))

rollsum_chunks_loop(buf_iter, done, start, map) ==
  IF Len(buf_iter) = 0 THEN map
  ELSE chunk_round(buf_iter, done, start, map,
                   IF done THEN None ELSE bupsplit_find_ofs(buf_iter))

rollsum_chunks_crc32(buf_iter) == rollsum_chunks_loop(buf_iter, FALSE, 0, EmptyMap)

---------------------------------------------------------------------------
(* rsync.rs: dedup_chunks                                                  *)

\* Faulty variant of dedup_find: no element of unique is ever found equal
dedup_find_none(unique, b, i) == None

\* The inner for loop: the index of the first element of unique equal to b
RECURSIVE dedup_find(_, _, _)
dedup_find(unique, b, i) ==
  IF i >= Len(unique) THEN None
  ELSE IF b = unique[i + 1] THEN Some(i)
  ELSE dedup_find(unique, b, i + 1)

RECURSIVE dedup_loop(_, _, _, _)
dedup_loop(input, k, unique, pairs) ==
  IF k > Len(input) THEN [pairs |-> pairs, unique |-> unique]
  ELSE
    LET chunk == input[k]
        found == dedup_find(unique, chunk.buf, 0)
    IN  IF found.is_some
        THEN dedup_loop(input, k + 1, unique, Append(pairs, <<chunk.start, found.val>>))
        ELSE dedup_loop(input, k + 1, Append(unique, chunk.buf),
                        Append(pairs, <<chunk.start, (Len(unique) + 1) - 1>>))

dedup_chunks(input) == dedup_loop(input, 1, <<>>, <<>>)

---------------------------------------------------------------------------
(* rsync.rs: rollsum_delta                                                 *)
(* A HashMap iterates in an order its hasher decides, so the function has  *)
(* one result per iteration order of dest_chunkset; order is a sequence    *)
(* listing the keys of dest_chunkset once each, and rollsum_delta is the   *)
(* set of the results.  A panic ends the function: the record keeps its    *)
(* message and nothing else changes after it.                              *)

\* The orders in which a HashMap with the key set S can iterate
RECURSIVE IterationOrders(_)
IterationOrders(S) ==
  IF S = {} THEN {<<>>}
  ELSE UNION {{<<x>> \o o : o \in IterationOrders(S \ {x})} : x \in S}

RollsumDeltaStats_default ==
  [ matched_size |-> 0, unmatched_size |-> 0, crc_miss |-> 0,
    chunkid_collision |-> 0, src_chunks |-> 0, dest_chunks |-> 0,
    dest_duplicates |-> 0, dest_size |-> 0 ]

RollsumDelta_default ==
  [ matched |-> EmptyMap, unmatched_chunks |-> <<>>, unmatched |-> EmptyMap,
    stats |-> RollsumDeltaStats_default, panic |-> "none" ]

\* Faulty variant of match_src_chunks: the first candidate with the ChunkId
\* is taken without comparing the bytes
match_src_chunks_unverified(d, src_chunks, i, dest_chunk) ==
  IF i > Len(src_chunks) THEN [delta |-> d, keep |-> TRUE]
  ELSE [delta |-> [d EXCEPT
                     !.matched = @ @@ (dest_chunk.start :>
                        [buf |-> src_chunks[i].buf, start |-> src_chunks[i].start]),
                     !.stats.matched_size = @ + Len(src_chunks[i].buf)],
        keep  |-> FALSE]

\* Faulty variant of match_src_chunks: the scan of the candidates ends at
\* the first one whose bytes differ
match_src_chunks_first_only(d, src_chunks, i, dest_chunk) ==
  IF i > Len(src_chunks) THEN [delta |-> d, keep |-> TRUE]
  ELSE IF src_chunks[i].buf # dest_chunk.buf
  THEN [delta |-> [d EXCEPT !.stats.chunkid_collision = @ + 1], keep |-> TRUE]
  ELSE [delta |-> [d EXCEPT
                     !.matched = @ @@ (dest_chunk.start :>
                        [buf |-> src_chunks[i].buf, start |-> src_chunks[i].start]),
                     !.stats.matched_size = @ + Len(src_chunks[i].buf)],
        keep  |-> FALSE]

\* for src_chunk in src_chunks.iter() { match delta.matched.entry(..) {..} }:
\* the delta after the loop and the value the retain closure returns
RECURSIVE match_src_chunks(_, _, _, _)
match_src_chunks(d, src_chunks, i, dest_chunk) ==
  IF i > Len(src_chunks) THEN [delta |-> d, keep |-> TRUE]
  ELSE
    LET src_chunk == src_chunks[i]
        len       == Len(src_chunk.buf)
    IN  IF dest_chunk.start \in DOMAIN d.matched
        THEN [delta |-> [d EXCEPT !.panic = "Duplicate destination offset"],
              keep  |-> TRUE]
        ELSE IF ~(len > 0)
        THEN [delta |-> [d EXCEPT !.panic = "assertion failed: len > 0"],
              keep  |-> TRUE]
        ELSE IF src_chunk.buf # dest_chunk.buf
        THEN match_src_chunks([d EXCEPT !.stats.chunkid_collision = @ + 1],
                              src_chunks, i + 1, dest_chunk)
        ELSE [delta |-> [d EXCEPT
                           !.matched = @ @@ (dest_chunk.start :>
                              [buf |-> src_chunk.buf, start |-> src_chunk.start]),
                           !.stats.matched_size = @ + len],
              keep  |-> FALSE]

\* Faulty variant of retain_dest_chunk: a matched chunk is retained as well
retain_dest_chunk_keep(d, src_chunkset, chunkid, dest_chunk) ==
  IF chunkid \in DOMAIN src_chunkset
  THEN [delta |-> match_src_chunks(d, src_chunkset[chunkid], 1, dest_chunk).delta,
        keep  |-> TRUE]
  ELSE [delta |-> [d EXCEPT !.stats.crc_miss = @ + 1], keep |-> TRUE]

\* Faulty variant of retain_dest_chunk: the source chunk set is never hit
retain_dest_chunk_miss(d, src_chunkset, chunkid, dest_chunk) ==
  [delta |-> [d EXCEPT !.stats.crc_miss = @ + 1], keep |-> TRUE]

\* The closure of dest_chunks.retain
retain_dest_chunk(d, src_chunkset, chunkid, dest_chunk) ==
  IF chunkid \in DOMAIN src_chunkset
  THEN match_src_chunks(d, src_chunkset[chunkid], 1, dest_chunk)
  ELSE [delta |-> [d EXCEPT !.stats.crc_miss = @ + 1], keep |-> TRUE]

\* dest_chunks.retain(..): the chunks of one bucket in Vec order
RECURSIVE retain_dest_chunks(_, _, _, _, _, _)
retain_dest_chunks(d, src_chunkset, chunkid, dest_chunks, k, kept) ==
  IF k > Len(dest_chunks) \/ d.panic # "none" THEN [delta |-> d, kept |-> kept]
  ELSE
    LET r == retain_dest_chunk(d, src_chunkset, chunkid, dest_chunks[k])
    IN  retain_dest_chunks(r.delta, src_chunkset, chunkid, dest_chunks, k + 1,
                           IF r.keep THEN Append(kept, dest_chunks[k]) ELSE kept)

\* dest_chunkset.retain(..): the buckets in iteration order; a bucket stays
\* when its Vec is not empty afterwards
RECURSIVE retain_dest_chunkset(_, _, _, _, _, _)
retain_dest_chunkset(d, src_chunkset, dest_chunkset, order, k, kept) ==
  IF k > Len(order) \/ d.panic # "none"
  THEN [delta |-> d, dest_chunkset |-> kept]
  ELSE
    LET chunkid == order[k]
        r == retain_dest_chunks(d, src_chunkset, chunkid, dest_chunkset[chunkid],
                                1, <<>>)
    IN  retain_dest_chunkset(r.delta, src_chunkset, dest_chunkset, order, k + 1,
                             IF Len(r.kept) # 0
                             THEN kept @@ (chunkid :> r.kept) ELSE kept)

RECURSIVE sum_buf_len(_, _)
sum_buf_len(chunks, k) ==
  IF k > Len(chunks) THEN 0 ELSE Len(chunks[k].buf) + sum_buf_len(chunks, k + 1)

\* BTreeMap::extend with the pairs (s, o + offset): a later pair replaces an
\* earlier entry with the same key
RECURSIVE extend_unmatched(_, _, _, _)
extend_unmatched(map, pairs, offset, k) ==
  IF k > Len(pairs) THEN map
  ELSE extend_unmatched((pairs[k][1] :> (pairs[k][2] + offset)) @@ map,
                        pairs, offset, k + 1)

\* Faulty variant of unmatched_bucket: unmatched_size is assigned, not
\* accumulated
unmatched_bucket_assign(d, dest_chunks) ==
  LET dd     == dedup_chunks(dest_chunks)
      offset == Len(d.unmatched_chunks)
  IN  [d EXCEPT !.stats.unmatched_size = sum_buf_len(dest_chunks, 1),
                !.unmatched_chunks = @ \o dd.unique,
                !.unmatched = extend_unmatched(@, dd.pairs, offset, 1)]

\* Faulty variant of unmatched_bucket: the indices of the bucket are not
\* moved by the number of buffers already in unmatched_chunks
unmatched_bucket_unshifted(d, dest_chunks) ==
  LET dd == dedup_chunks(dest_chunks)
  IN  [d EXCEPT !.stats.unmatched_size = @ + sum_buf_len(dest_chunks, 1),
                !.unmatched_chunks = @ \o dd.unique,
                !.unmatched = extend_unmatched(@, dd.pairs, 0, 1)]

\* The body of the loop over dest_chunkset.into_iter()
unmatched_bucket(d, dest_chunks) ==
  LET origlen == Len(dest_chunks)
      size    == d.stats.unmatched_size + sum_buf_len(dest_chunks, 1)
      dd      == dedup_chunks(dest_chunks)
      dups    == origlen - Len(dd.pairs)
      offset  == Len(d.unmatched_chunks)
  IN  IF dups < 0
      THEN [d EXCEPT !.panic = "checked_sub: unwrap on None"]
      ELSE [d EXCEPT !.stats.unmatched_size = size,
                     !.stats.dest_duplicates = @ + dups,
                     !.unmatched_chunks = @ \o dd.unique,
                     !.unmatched = extend_unmatched(@, dd.pairs, offset, 1)]

RECURSIVE unmatched_buckets(_, _, _, _)
unmatched_buckets(d, dest_chunkset, order, k) ==
  IF k > Len(order) \/ d.panic # "none" THEN d
  ELSE IF order[k] \in DOMAIN dest_chunkset
  THEN unmatched_buckets(unmatched_bucket(d, dest_chunkset[order[k]]),
                         dest_chunkset, order, k + 1)
  ELSE unmatched_buckets(d, dest_chunkset, order, k + 1)

\* Lines 128-192, given the two chunk sets of lines 125-126
delta_of_chunksets(src_chunkset, dest_chunkset, dest, order) ==
  LET delta0 == [RollsumDelta_default EXCEPT
                   !.stats.src_chunks  = Cardinality(DOMAIN src_chunkset),
                   !.stats.dest_chunks = Cardinality(DOMAIN dest_chunkset),
                   !.stats.dest_size   = Len(dest)]
      retained == retain_dest_chunkset(delta0, src_chunkset, dest_chunkset,
                                       order, 1, EmptyMap)
  IN  unmatched_buckets(retained.delta, retained.dest_chunkset, order, 1)

deltas_of_chunksets(src_chunkset, dest_chunkset, dest) ==
  {delta_of_chunksets(src_chunkset, dest_chunkset, dest, order) :
     order \in IterationOrders(DOMAIN dest_chunkset)}

rollsum_delta(src, dest) ==
  deltas_of_chunksets(rollsum_chunks_crc32(src), rollsum_chunks_crc32(dest), dest)

---------------------------------------------------------------------------
(* rsync.rs: create_patchfile                                              *)
(* `out` is the byte stream handed to the zstd encoder; the encoder and    *)
(* the writer under it are taken not to fail.                              *)

\* The keys of a BTreeMap in iteration (ascending) order
RECURSIVE btree_keys(_)
btree_keys(S) ==
  IF S = {} THEN <<>>
  ELSE LET m == CHOOSE x \in S : \A y \in S : x <= y
       IN  <<m>> \o btree_keys(S \ {m})

\* write_u64::<LittleEndian> and bincode's fixed-width little-endian integers
RECURSIVE le_bytes(_, _)
le_bytes(n, width) ==
  IF width = 0 THEN <<>> ELSE <<n % 256>> \o le_bytes(n \div 256, width - 1)

CopyBuf(start, len)    == [tag |-> "CopyBuf", start |-> start, len |-> len]
CopySource(start, len) == [tag |-> "CopySource", start |-> start, len |-> len]

\* bincode::serialize of one PatchEntry: the variant index as u32, then the
\* two u64 fields
serialize_entry(e) ==
  le_bytes(IF e.tag = "CopyBuf" THEN 0 ELSE 1, 4)
    \o le_bytes(e.start, 8) \o le_bytes(e.len, 8)

RECURSIVE serialize_entries(_, _)
serialize_entries(chunks, k) ==
  IF k > Len(chunks) THEN <<>>
  ELSE serialize_entry(chunks[k]) \o serialize_entries(chunks, k + 1)

\* bincode::serialize of Patch { chunks }: the Vec's length as u64, then its
\* elements
serialize_patch(p) == le_bytes(Len(p.chunks), 8) \o serialize_entries(p.chunks, 1)

\* The loop filling chunk_offsets: index -> offset in the literal data, and
\* the running buflen
RECURSIVE chunk_offsets_loop(_, _, _, _)
chunk_offsets_loop(unmatched_chunks, i, buflen, chunk_offsets) ==
  IF i >= Len(unmatched_chunks)
  THEN [buflen |-> buflen, chunk_offsets |-> chunk_offsets]
  ELSE chunk_offsets_loop(unmatched_chunks, i + 1,
                          buflen + Len(unmatched_chunks[i + 1]),
                          (i :> buflen) @@ chunk_offsets)

\* e.map_left(..): (destination offset, CopySource)
map_left(d, start) ==
  <<start, CopySource(d.matched[start].start, Len(d.matched[start].buf))>>

\* e.map_right(..): (destination offset, CopyBuf)
map_right(d, chunk_offsets, start) ==
  LET bufidx    == d.unmatched[start]
      len       == Len(d.unmatched_chunks[bufidx + 1])
      buf_start == chunk_offsets[bufidx]
  IN  <<start, CopyBuf(buf_start, len)>>

\* The loop over delta.matched.iter().zip_longest(delta.unmatched.iter()):
\* step k pairs the k-th entry of each map.  `pushed` lists, in push order,
\* the (offset, entry) pair whose entry was pushed to patch.chunks.
RECURSIVE zip_longest_loop(_, _, _, _, _, _)
zip_longest_loop(d, chunk_offsets, mkeys, ukeys, k, pushed) ==
  IF k > Len(mkeys) /\ k > Len(ukeys) THEN pushed
  ELSE IF k <= Len(mkeys) /\ k <= Len(ukeys)
  THEN LET matched   == map_left(d, mkeys[k])
           unmatched == map_right(d, chunk_offsets, ukeys[k])
       IN  zip_longest_loop(d, chunk_offsets, mkeys, ukeys, k + 1,
             IF matched[1] < unmatched[1]
             THEN pushed \o <<matched, unmatched>>
             ELSE pushed \o <<unmatched, matched>>)
  ELSE IF k <= Len(mkeys)
  THEN zip_longest_loop(d, chunk_offsets, mkeys, ukeys, k + 1,
                        Append(pushed, map_left(d, mkeys[k])))
  ELSE zip_longest_loop(d, chunk_offsets, mkeys, ukeys, k + 1,
                        Append(pushed, map_right(d, chunk_offsets, ukeys[k])))

NoPatch ==
  [ delta |-> RollsumDelta_default, buflen |-> 0, chunk_offsets |-> EmptyMap,
    pushed |-> <<>>, patch |-> [chunks |-> <<>>], out |-> <<>>,
    result |-> None ]

\* Lines 203-254, given the delta of line 201; out is what is written to the
\* zstd encoder of line 203, in the order of the writes
patchfile_of_delta(d) ==
  LET offs    == chunk_offsets_loop(d.unmatched_chunks, 0, 0, EmptyMap)
      pushed  == zip_longest_loop(d, offs.chunk_offsets,
                                  btree_keys(DOMAIN d.matched),
                                  btree_keys(DOMAIN d.unmatched), 1, <<>>)
      p       == [chunks |-> [k \in 1..Len(pushed) |-> pushed[k][2]]]
  IN  IF d.panic # "none" THEN [NoPatch EXCEPT !.delta = d]
      ELSE [ delta |-> d, buflen |-> offs.buflen,
             chunk_offsets |-> offs.chunk_offsets,
             pushed |-> pushed, patch |-> p,
             out |-> HEADER \o le_bytes(offs.buflen, 8) \o serialize_patch(p),
             result |-> Some(d.stats) ]

create_patchfile(src, dest) == {patchfile_of_delta(d) : d \in rollsum_delta(src, dest)}

---------------------------------------------------------------------------
(* The inputs.  A buffer is a concatenation of a few pieces: two 8-byte    *)
(* blocks after whose last byte the rolling checksum signals a boundary    *)
(* and which have the same CRC-32 (0x18C53AC5), and the single byte of     *)
(* test_rollsum.  Long buffers start with a run of zero bytes, over which  *)
(* the checksum never signals a boundary, of a length around               *)
(* ROLLSUM_BLOB_MAX; one has a byte 1 at the end of the run, which keeps   *)
(* the checksum from signalling a boundary after the block behind it.     *)

MaxSrcPieces   == 2
MaxDestPieces  == 3
MaxChunkPieces == 4

BoundaryBlock  == <<228, 145, 197, 177, 11, 236, 181, 59>>
CollidingBlock == <<5, 222, 252, 237, 206, 144, 233, 66>>
SingleByte     == <<42>>

Pieces == {BoundaryBlock, CollidingBlock, SingleByte}

RECURSIVE Buffers(_)
Buffers(n) ==
  IF n = 0 THEN {<<>>}
  ELSE LET shorter == Buffers(n - 1)
       IN  shorter \cup {b \o p : b \in shorter, p \in Pieces}

Zeros(n) == [i \in 1..n |-> 0]

LongBuffers ==
  {Zeros(n) \o t : n \in {ROLLSUM_BLOB_MAX - 1, ROLLSUM_BLOB_MAX, ROLLSUM_BLOB_MAX + 1},
                   t \in {<<>>, BoundaryBlock}}
    \cup {Zeros(ROLLSUM_BLOB_MAX - 1) \o <<1>> \o BoundaryBlock \o SingleByte}


---------------------------------------------------------------------------
(* The state machine: one call of one of the functions on the input.       *)

Init ==
  /\ srcBuf \in Buffers(MaxSrcPieces)
  /\ destBuf \in Buffers(MaxDestPieces)
  /\ pc = "start"
  /\ chunkBuf = <<>>
  /\ chunkSet = EmptyMap
  /\ deltaRes = RollsumDelta_default
  /\ patchRes = NoPatch
  /\ outBytes = <<>>
  /\ rollsum = Rollsum_new
  /\ MainIdle

RollsumChunksCrc32 ==
  /\ pc = "start"
  /\ \E b \in {srcBuf, destBuf} :
       /\ chunkBuf' = b
       /\ chunkSet' = rollsum_chunks_crc32(b)
  /\ pc' = "chunks"
  /\ UNCHANGED <<srcBuf, destBuf, deltaRes, patchRes, outBytes, rollsum>>
  /\ UNCHANGED mainVars

RollsumDelta ==
  /\ pc = "start"
  /\ deltaRes' \in rollsum_delta(srcBuf, destBuf)
  /\ pc' = "delta"
  /\ UNCHANGED <<srcBuf, destBuf, chunkBuf, chunkSet, patchRes, outBytes, rollsum>>
  /\ UNCHANGED mainVars

CreatePatchfile ==
  /\ pc = "start"
  /\ patchRes' \in create_patchfile(srcBuf, destBuf)
  /\ outBytes' = patchRes'.out
  /\ pc' = "patch"
  /\ UNCHANGED <<srcBuf, destBuf, chunkBuf, chunkSet, deltaRes, rollsum>>
  /\ UNCHANGED mainVars

Next == RollsumDelta \/ CreatePatchfile

Spec == Init /\ [][Next]_vars

\* The chunker alone, on short and on long buffers
InitChunks ==
  /\ srcBuf \in Buffers(MaxChunkPieces) \cup LongBuffers
  /\ destBuf = <<>>
  /\ pc = "start"
  /\ chunkBuf = <<>>
  /\ chunkSet = EmptyMap
  /\ deltaRes = RollsumDelta_default
  /\ patchRes = NoPatch
  /\ outBytes = <<>>
  /\ rollsum = Rollsum_new
  /\ MainIdle

NextChunks == RollsumChunksCrc32

SpecChunks == InitChunks /\ [][NextChunks]_vars

---------------------------------------------------------------------------
(* bupsplit_sum (bupsplit.rs:89-95): a new Rollsum is rolled over the      *)
(* bytes of a buffer one by one, and digested.  The buffers are a short    *)
(* prefix followed by a full window of bytes; chunkBuf is the part of the  *)
(* buffer that has been rolled.                                            *)

MaxRollPrefix == 3

RollBytes == {0, 1, 255}

RECURSIVE RollPrefixes(_)
RollPrefixes(n) ==
  IF n = 0 THEN {<<>>}
  ELSE LET shorter == RollPrefixes(n - 1)
       IN  shorter \cup {Append(b, x) : b \in shorter, x \in RollBytes}

RollWindows ==
  { [i \in 1..BUP_WINDOWSIZE |-> 255],
    [i \in 1..BUP_WINDOWSIZE |-> (i * 37) % 256],
    Zeros(BUP_WINDOWSIZE - Len(BoundaryBlock)) \o BoundaryBlock }

InitSum ==
  /\ srcBuf \in {p \o w : p \in RollPrefixes(MaxRollPrefix), w \in RollWindows}
  /\ destBuf = <<>>
  /\ pc = "sum"
  /\ chunkBuf = <<>>
  /\ chunkSet = EmptyMap
  /\ deltaRes = RollsumDelta_default
  /\ patchRes = NoPatch
  /\ outBytes = <<>>
  /\ rollsum = Rollsum_new
  /\ MainIdle

\* bupsplit.rs:91-93: one iteration of the loop
BupsplitSumRoll ==
  /\ pc = "sum"
  /\ Len(chunkBuf) < Len(srcBuf)
  /\ rollsum' = Rollsum_roll(rollsum, srcBuf[Len(chunkBuf) + 1])
  /\ chunkBuf' = Append(chunkBuf, srcBuf[Len(chunkBuf) + 1])
  /\ UNCHANGED <<srcBuf, destBuf, pc, chunkSet, deltaRes, patchRes, outBytes>>
  /\ UNCHANGED mainVars

\* bupsplit.rs:94: the digest is returned, as the four bytes of the u32
BupsplitSumDigest ==
  /\ pc = "sum"
  /\ Len(chunkBuf) = Len(srcBuf)
  /\ outBytes' = le_bytes(Rollsum_digest(rollsum)[2], 2)
                   \o le_bytes(Rollsum_digest(rollsum)[1], 2)
  /\ pc' = "digest"
  /\ UNCHANGED <<srcBuf, destBuf, chunkBuf, chunkSet, deltaRes, patchRes, rollsum>>
  /\ UNCHANGED mainVars

NextSum == BupsplitSumRoll \/ BupsplitSumDigest

SpecSum == InitSum /\ [][NextSum]_vars

---------------------------------------------------------------------------
(* rollsum_delta of a buffer and a copy of it with one byte flipped.  The  *)
(* sources are the buffers of up to MaxFlipPieces pieces, flipped at every *)
(* offset, and one buffer longer than two chunks of ROLLSUM_BLOB_MAX bytes *)
(* in which the checksum never signals a boundary, flipped at offset 0.    *)

MaxFlipPieces == 3

\* x with the top bit of the byte at offset i flipped
FlipByte(x, i) == [x EXCEPT ![i + 1] = (@ + 128) % 256]

\* BoundaryBlock with its first byte flipped and then zero bytes, but for a
\* byte 1 at the same offset of the first and of the second chunk
LongFlipSourceLen == 2 * ROLLSUM_BLOB_MAX + Len(BoundaryBlock)
LongFlipMarker == ROLLSUM_BLOB_MAX \div 2
LongFlipSource ==
  FlipByte(BoundaryBlock, 0)
    \o Zeros(LongFlipMarker - Len(BoundaryBlock)) \o <<1>>
    \o Zeros(ROLLSUM_BLOB_MAX - 1) \o <<1>>
    \o Zeros(LongFlipSourceLen - LongFlipMarker - ROLLSUM_BLOB_MAX - 1)

FlipInputs ==
  UNION {{<<x, FlipByte(x, i)>> : i \in 0..(Len(x) - 1)} : x \in Buffers(MaxFlipPieces)}
    \cup {<<LongFlipSource, FlipByte(LongFlipSource, 0)>>}

InitFlip ==
  /\ \E xy \in FlipInputs :
       /\ srcBuf = xy[1]
       /\ destBuf = xy[2]
  /\ pc = "start"
  /\ chunkBuf = <<>>
  /\ chunkSet = EmptyMap
  /\ deltaRes = RollsumDelta_default
  /\ patchRes = NoPatch
  /\ outBytes = <<>>
  /\ rollsum = Rollsum_new
  /\ MainIdle

NextFlip == RollsumDelta

SpecFlip == InitFlip /\ [][NextFlip]_vars

---------------------------------------------------------------------------
(* src/src/riverdelta.rs: a stream's platforms split up by delta strategy. *)
(* A file name is the sequence of its dot-separated components, so that    *)
(* <<"aws", "vmdk", "xz">> is aws.vmdk.xz; an Artifact is represented by   *)
(* its file name.  A stream is the set of the platforms it has artifacts   *)
(* for (this architecture's `artifacts` map).                              *)

QEMU   == "qemu"
METAL  == "metal"
AWS    == "aws"
VMWARE == "vmware"
VMDK   == "vmdk"
QCOW2  == "qcow2"

\* One platform of the source's list, and one that no strategy covers
RSYNC_STRATEGY_DISK == {"openstack"}
UncoveredPlatforms  == {"packet"}

Platforms == {QEMU, METAL, AWS, VMWARE} \cup RSYNC_STRATEGY_DISK \cup UncoveredPlatforms

\* Streams always have qemu (TryFrom fails with "Missing qemu" otherwise)
Streams == {s \cup {QEMU} : s \in SUBSET (Platforms \ {QEMU})}

\* The disk artifact a stream publishes for a platform
platform_disk_artifact(p) ==
  CASE p = AWS    -> <<AWS, VMDK, "xz">>
    [] p = VMWARE -> <<VMWARE, "ova">>
    [] OTHER      -> <<p, QCOW2, "xz">>

MetalArtifacts ==
  [ iso |-> <<"live", "iso">>,
    pxe |-> [ kernel    |-> <<"live-kernel">>,
              initramfs |-> <<"live-initramfs", "img">>,
              rootfs    |-> <<"live-rootfs", "img">> ] ]

RiverDeltaFrom(s) ==
  [ parsed |-> TRUE,
    qemu   |-> platform_disk_artifact(QEMU),
    qemu_rsyncable_artifacts |->
      [p \in s \cap RSYNC_STRATEGY_DISK |-> platform_disk_artifact(p)],
    aws    |-> IF AWS \in s THEN Some(platform_disk_artifact(AWS)) ELSE None,
    vmware |-> IF VMWARE \in s THEN Some(platform_disk_artifact(VMWARE)) ELSE None,
    metal  |-> IF METAL \in s THEN Some(MetalArtifacts) ELSE None,
    unhandled |-> s \ ({QEMU, METAL, AWS, VMWARE} \cup RSYNC_STRATEGY_DISK) ]

get_rsyncable(rd, name) ==
  IF name = AWS THEN rd.aws
  ELSE IF name \in DOMAIN rd.qemu_rsyncable_artifacts
       THEN Some(rd.qemu_rsyncable_artifacts[name])
       ELSE None

---------------------------------------------------------------------------
(* src/src/main.rs: file names.                                            *)

extension(name) == IF Len(name) > 1 THEN name[Len(name)] ELSE ""

maybe_uncompressed_name(s) ==
  IF extension(s) \in {"xz", "gz"} THEN Some(SubSeq(s, 1, Len(s) - 1)) ELSE None

uncompressed_name(s) ==
  IF maybe_uncompressed_name(s).is_some THEN maybe_uncompressed_name(s).val ELSE s

rdelta_name_for_artifact(a) == Append(uncompressed_name(a), "rdelta")

ova_rdelta_name_for_artifact(a) == Append(uncompressed_name(a), "ova-rdelta")

STREAM_FILE   == <<"stream", "json">>
METADATA_FILE == <<"meta", "json">>

---------------------------------------------------------------------------
(* src/src/main.rs: rehydrate.  The files a run creates are kept by        *)
(* directory (the working directory, the temporary directory made inside   *)
(* it, the dest directory); standard output is the sequence of the items   *)
(* written to it: a raw image, a tar entry, the end of the tar archive, or *)
(* text.  The steps that leave the program (rsync::apply, qemu-img, file   *)
(* I/O, SHA-256 validation) succeed or fail, either way.                   *)

Ok == "Ok"

World ==
  [ stdoutStream |-> stdoutStream, destDir |-> destDir,
    workDir |-> workDir, tmpDir |-> tmpDir ]

SetWorld(w) ==
  /\ stdoutStream' = w.stdoutStream
  /\ destDir' = w.destDir
  /\ workDir' = w.workDir
  /\ tmpDir' = w.tmpDir

Return(r) ==
  /\ result' = r
  /\ pc' = "done"

Goto(label) ==
  /\ pc' = label
  /\ UNCHANGED result

\* write_output of the file `name` of the directory `dir` (a field of the
\* world): main.rs:179-200
write_output(tgt, w, dir, name) ==
  CASE tgt = "Directory" ->
         [w EXCEPT ![dir] = @ \ {name}, !.destDir = @ \cup {name}]
    [] tgt = "Stdout" ->
         [w EXCEPT !.stdoutStream = Append(@, [kind |-> "image", name |-> name])]
    [] tgt = "Tar" ->
         [w EXCEPT !.stdoutStream = Append(@, [kind |-> "tar_entry", name |-> name])]

\* sha_ok: whether the file's SHA-256 is the expected one
finish_output(o, tgt, w, dir, name, sha_ok) ==
  IF o.skip_validate THEN [err |-> Ok, world |-> write_output(tgt, w, dir, name)]
  ELSE IF ~sha_ok THEN [err |-> "SHA-256 mismatch", world |-> w]
  ELSE [err |-> Ok, world |-> write_output(tgt, w, dir, name)]

\* The loop over the PXE artifacts: each is hardlinked into the temporary
\* directory and finished; the first `good` of them validate
RECURSIVE pxe_loop(_, _, _, _, _)
pxe_loop(o, tgt, w, names, good) ==
  IF names = <<>> THEN [err |-> Ok, world |-> w]
  ELSE LET tmp == Head(names)
           linked == [w EXCEPT !.tmpDir = @ \cup {tmp}]
           r == finish_output(o, tgt, linked, "tmpDir", tmp, good > 0)
       IN  IF r.err # Ok THEN r
           ELSE pxe_loop(o, tgt, r.world, Tail(names), good - 1)

SeqToSet(s) == {s[i] : i \in 1..Len(s)}

\* main.rs:251-252
have_multiple(o) == Len(o.disk) > 1 \/ o.pxe

output_target(o) ==
  IF o.dest = "-"
  THEN IF have_multiple(o) THEN "Tar" ELSE "Stdout"
  ELSE "Directory"

MaxDisks == 2

DiskNames == {QEMU, AWS, VMWARE} \cup RSYNC_STRATEGY_DISK \cup UncoveredPlatforms

RECURSIVE DiskLists(_)
DiskLists(n) ==
  IF n = 0 THEN {<<>>}
  ELSE LET shorter == DiskLists(n - 1)
       IN  shorter \cup {Append(l, d) : l \in shorter, d \in DiskNames}

RehydrateOptions ==
  [ command : {"rehydrate"}, disk : DiskLists(MaxDisks), iso : BOOLEAN,
    pxe : BOOLEAN, skip_validate : BOOLEAN, dest : {"-", "out"} ]

InitRehydrate ==
  /\ opts \in RehydrateOptions
  /\ pc = "rehydrate"
  /\ riverdelta = NoRiverDelta
  /\ target = "none"
  /\ stdoutStream = <<>>
  /\ destDir = {}
  /\ workDir = {}
  /\ tmpDir = {}
  /\ disks = {}
  /\ result = Running
  /\ incomplete = {}
  /\ writers = {}
  /\ srcBuf = <<>>
  /\ destBuf = <<>>
  /\ chunkBuf = <<>>
  /\ chunkSet = EmptyMap
  /\ deltaRes = RollsumDelta_default
  /\ patchRes = NoPatch
  /\ outBytes = <<>>
  /\ rollsum = Rollsum_new

\* main.rs:242-274: the checks of the options, the output target, the stream
RehydrateStart ==
  /\ pc = "rehydrate"
  /\ \E isatty \in BOOLEAN, io_ok \in BOOLEAN, s \in Streams :
       IF opts.disk = <<>> /\ ~(opts.iso \/ opts.pxe)
       THEN Return("No images specified") /\ UNCHANGED <<target, riverdelta>>
       ELSE IF opts.dest = "-" /\ isatty
       THEN Return("Refusing to output to a tty") /\ UNCHANGED <<target, riverdelta>>
       ELSE /\ target' = output_target(opts)
            /\ IF io_ok
               THEN riverdelta' = RiverDeltaFrom(s) /\ Goto("iso")
               ELSE Return("Failed to open stream.json") /\ UNCHANGED riverdelta
  /\ UNCHANGED <<opts, stdoutStream, destDir, workDir, tmpDir, disks>>
  /\ UNCHANGED rsyncVars
  /\ UNCHANGED fsVars

\* main.rs:275-289
RehydrateIso ==
  /\ pc = "iso"
  /\ IF ~opts.iso THEN Goto("pxe") /\ SetWorld(World)
     ELSE IF ~riverdelta.metal.is_some THEN Return("Missing metal") /\ SetWorld(World)
     ELSE \E applied \in BOOLEAN, sha_ok \in BOOLEAN :
            IF ~applied THEN Return("rsync::apply failed") /\ SetWorld(World)
            ELSE LET iso_fn == riverdelta.metal.val.iso
                     w == [World EXCEPT !.workDir = @ \cup {iso_fn}]
                     r == finish_output(opts, target, w, "workDir", iso_fn, sha_ok)
                 IN  /\ SetWorld(r.world)
                     /\ IF r.err = Ok THEN Goto("pxe") ELSE Return(r.err)
  /\ UNCHANGED <<opts, riverdelta, target, disks>>
  /\ UNCHANGED rsyncVars
  /\ UNCHANGED fsVars

\* main.rs:290-300
RehydratePxe ==
  /\ pc = "pxe"
  /\ IF ~opts.pxe THEN Goto("qemu") /\ SetWorld(World)
     ELSE IF ~riverdelta.metal.is_some THEN Return("Missing metal") /\ SetWorld(World)
     ELSE \E good \in 0..3 :
            LET pxe == riverdelta.metal.val.pxe
                r == pxe_loop(opts, target, World,
                              <<pxe.kernel, pxe.initramfs, pxe.rootfs>>, good)
            IN  /\ SetWorld(r.world)
                /\ IF r.err = Ok THEN Goto("qemu") ELSE Return(r.err)
  /\ UNCHANGED <<opts, riverdelta, target, disks>>
  /\ UNCHANGED rsyncVars
  /\ UNCHANGED fsVars

\* main.rs:302-330: the qemu image is unpacked into the working directory,
\* and the set of the other requested disks is built
RehydrateUnpackQemu ==
  /\ pc = "qemu"
  /\ LET qemu_fn == uncompressed_name(riverdelta.qemu)
     IN  \E io_ok \in BOOLEAN :
           IF opts.disk # <<>> /\ qemu_fn \notin workDir /\ ~io_ok
           THEN /\ Return("Failed to decompress qemu")
                /\ UNCHANGED <<workDir, disks>>
           ELSE /\ workDir' = IF opts.disk # <<>> THEN workDir \cup {qemu_fn} ELSE workDir
                /\ disks' = SeqToSet(opts.disk) \ {QEMU}
                /\ Goto("vmware")
  /\ UNCHANGED <<opts, riverdelta, target, stdoutStream, destDir, tmpDir>>
  /\ UNCHANGED rsyncVars
  /\ UNCHANGED fsVars

\* rehydrate_ova (main.rs:398-435): the OVA is rebuilt in the temporary
\* directory and written to the output
rehydrate_ova(tgt, w, vmware) ==
  LET temp_ova == vmware
  IN  write_output(tgt, [w EXCEPT !.tmpDir = @ \cup {temp_ova}], "tmpDir", temp_ova)

\* main.rs:332-339
RehydrateVmware ==
  /\ pc = "vmware"
  /\ IF VMWARE \notin disks THEN Goto("disks") /\ SetWorld(World) /\ UNCHANGED disks
     ELSE /\ disks' = disks \ {VMWARE}
          /\ IF ~riverdelta.vmware.is_some
             THEN Return("No vmware artifact available") /\ SetWorld(World)
             ELSE \E io_ok \in BOOLEAN :
                    IF io_ok
                    THEN /\ SetWorld(rehydrate_ova(target, World, riverdelta.vmware.val))
                         /\ Goto("disks")
                    ELSE Return("rehydrate_ova failed") /\ SetWorld(World)
  /\ UNCHANGED <<opts, riverdelta, target>>
  /\ UNCHANGED rsyncVars
  /\ UNCHANGED fsVars

\* main.rs:342-367: the body of the parallel loop for one disk; the loop's
\* iterations run in any order
RehydrateDisk(disk) ==
  /\ pc = "disks"
  /\ disk \in disks
  /\ disks' = disks \ {disk}
  /\ IF disk \in riverdelta.unhandled
     THEN Return("Unhandled artifact") /\ SetWorld(World)
     ELSE IF ~get_rsyncable(riverdelta, disk).is_some
     THEN Return("Unknown artifact") /\ SetWorld(World)
     ELSE \E applied \in BOOLEAN, converted \in BOOLEAN, sha_ok \in BOOLEAN :
            LET a == get_rsyncable(riverdelta, disk).val
                uncompressed == uncompressed_name(a)
                tmpname == Append(uncompressed, "tmp")
                w1 == [World EXCEPT !.workDir = @ \cup {tmpname}]
            IN  IF ~applied THEN Return("rsync::apply failed") /\ SetWorld(World)
                ELSE IF extension(uncompressed) = VMDK
                THEN IF converted
                     THEN /\ SetWorld([w1 EXCEPT !.workDir =
                                         (@ \ {tmpname}) \cup {uncompressed}])
                          /\ Goto("disks")
                     ELSE Return("qemu-img failed") /\ SetWorld(w1)
                ELSE LET w2 == [w1 EXCEPT !.workDir =
                                  (@ \ {tmpname}) \cup {uncompressed}]
                         r == finish_output(opts, target, w2, "workDir",
                                            uncompressed, sha_ok)
                     IN  /\ SetWorld(r.world)
                         /\ IF r.err = Ok THEN Goto("disks") ELSE Return(r.err)
  /\ UNCHANGED <<opts, riverdelta, target>>
  /\ UNCHANGED rsyncVars
  /\ UNCHANGED fsVars

\* main.rs:368-370: the report of the qemu image, with print!
RehydrateReport ==
  /\ pc = "disks"
  /\ disks = {}
  /\ stdoutStream' =
       IF QEMU \in SeqToSet(opts.disk)
       THEN Append(stdoutStream,
                   [kind |-> "text", name |-> uncompressed_name(riverdelta.qemu)])
       ELSE stdoutStream
  /\ Goto("finish")
  /\ UNCHANGED <<opts, riverdelta, target, destDir, workDir, tmpDir, disks>>
  /\ UNCHANGED rsyncVars
  /\ UNCHANGED fsVars

\* main.rs:372-383: the output target is flushed or finished
RehydrateFinish ==
  /\ pc = "finish"
  /\ \E io_ok \in BOOLEAN :
       IF target = "Tar" /\ io_ok
       THEN /\ stdoutStream' = Append(stdoutStream, [kind |-> "tar_end", name |-> <<>>])
            /\ Return(Ok)
       ELSE /\ UNCHANGED stdoutStream
            /\ IF target = "Directory" \/ io_ok THEN Return(Ok)
               ELSE Return("flush failed")
  /\ UNCHANGED <<opts, riverdelta, target, destDir, workDir, tmpDir, disks>>
  /\ UNCHANGED rsyncVars
  /\ UNCHANGED fsVars

NextRehydrate ==
  \/ RehydrateStart
  \/ RehydrateIso
  \/ RehydratePxe
  \/ RehydrateUnpackQemu
  \/ RehydrateVmware
  \/ \E disk \in DiskNames : RehydrateDisk(disk)
  \/ RehydrateReport
  \/ RehydrateFinish

SpecRehydrate == InitRehydrate /\ [][NextRehydrate]_vars

---------------------------------------------------------------------------
(* src/src/main.rs: build_dehydrate.  destDir is the directory of the      *)
(* dehydrated content (DIR) and workDir holds the cache of uncompressed    *)
(* images (CACHEDIR).                                                      *)

DehydrateOptions == [command : {"dehydrate"}, allow_unhandled : BOOLEAN]

InitDehydrate ==
  /\ opts \in DehydrateOptions
  /\ pc = "dehydrate"
  /\ riverdelta = NoRiverDelta
  /\ target = "none"
  /\ stdoutStream = <<>>
  /\ destDir = {}
  /\ workDir = {}
  /\ tmpDir = {}
  /\ disks = {}
  /\ result = Running
  /\ incomplete = {}
  /\ writers = {}
  /\ srcBuf = <<>>
  /\ destBuf = <<>>
  /\ chunkBuf = <<>>
  /\ chunkSet = EmptyMap
  /\ deltaRes = RollsumDelta_default
  /\ patchRes = NoPatch
  /\ outBytes = <<>>
  /\ rollsum = Rollsum_new

\* main.rs:608-618: the stream is read, and refused if it has unhandled
\* platforms that the options do not allow
DehydrateStart ==
  /\ pc = "dehydrate"
  /\ \E io_ok \in BOOLEAN, s \in Streams :
       IF ~io_ok THEN Return("Failed to open stream.json") /\ UNCHANGED riverdelta
       ELSE /\ riverdelta' = RiverDeltaFrom(s)
            /\ IF ~opts.allow_unhandled /\ riverdelta'.unhandled # {}
               THEN Return("Unhandled artifacts")
               ELSE Goto("prepare")
  /\ UNCHANGED <<opts, target, stdoutStream, destDir, workDir, tmpDir, disks>>
  /\ UNCHANGED rsyncVars
  /\ UNCHANGED fsVars

\* The artifacts the thread pool dehydrates (main.rs:654-669)
pool_artifacts(rd) ==
  {rd.qemu_rsyncable_artifacts[p] : p \in DOMAIN rd.qemu_rsyncable_artifacts}
    \cup (IF rd.aws.is_some THEN {rd.aws.val} ELSE {})
    \cup (IF rd.vmware.is_some THEN {rd.vmware.val} ELSE {})

\* All the artifacts a pool can have
PoolArtifacts ==
  {platform_disk_artifact(p) : p \in {AWS, VMWARE} \cup RSYNC_STRATEGY_DISK}

\* The files of the live ISO and PXE data (main.rs:630-641)
metal_files(rd) ==
  IF rd.metal.is_some
  THEN LET metal == rd.metal.val
       IN  {metal.pxe.rootfs, rdelta_name_for_artifact(metal.iso),
            metal.pxe.kernel, metal.pxe.initramfs}
  ELSE {}

\* main.rs:620-645: the cache, the destination directory and the files that
\* are linked into it, with the delta of the ISO
DehydratePrepare ==
  /\ pc = "prepare"
  /\ \E io_ok \in BOOLEAN :
       IF ~io_ok
       THEN Return("Failed to create destination directory") /\ UNCHANGED <<destDir, workDir, disks>>
       ELSE LET uncomp_qemu == uncompressed_name(riverdelta.qemu)
            IN  /\ workDir' = workDir \cup {uncomp_qemu}
                /\ destDir' = {STREAM_FILE} \cup metal_files(riverdelta) \cup {uncomp_qemu}
                /\ disks' = pool_artifacts(riverdelta)
                /\ Goto("pool")
  /\ UNCHANGED <<opts, riverdelta, target, stdoutStream, tmpDir>>
  /\ UNCHANGED rsyncVars
  /\ UNCHANGED fsVars

\* main.rs:652-672: one artifact of the pool: dehydrate_rsyncable, or
\* dehydrate_ova for vmware (main.rs:565-605)
DehydrateArtifact(a) ==
  /\ pc = "pool"
  /\ a \in disks
  /\ disks' = disks \ {a}
  /\ \E io_ok \in BOOLEAN :
       IF ~io_ok THEN Return("Creating rsync delta") /\ UNCHANGED destDir
       ELSE /\ destDir' = destDir \cup
                 {IF riverdelta.vmware.is_some /\ a = riverdelta.vmware.val
                  THEN ova_rdelta_name_for_artifact(a)
                  ELSE rdelta_name_for_artifact(a)}
            /\ Goto("pool")
  /\ UNCHANGED <<opts, riverdelta, target, stdoutStream, workDir, tmpDir>>
  /\ UNCHANGED rsyncVars
  /\ UNCHANGED fsVars

\* zstd_compress (main.rs:454-464)
zstd_compress(dir, src) == (dir \ {src}) \cup {Append(src, "zst")}

\* main.rs:674-708: the qemu image is compressed and the metadata written
DehydrateFinish ==
  /\ pc = "pool"
  /\ disks = {}
  /\ \E io_ok \in BOOLEAN :
       IF ~io_ok THEN Return("Computing new size") /\ UNCHANGED destDir
       ELSE /\ destDir' = zstd_compress(destDir, uncompressed_name(riverdelta.qemu))
                            \cup {METADATA_FILE}
            /\ Goto("report")
  /\ UNCHANGED <<opts, riverdelta, target, stdoutStream, workDir, tmpDir, disks>>
  /\ UNCHANGED rsyncVars
  /\ UNCHANGED fsVars

\* assert!(cond) panics unless cond holds
assert_holds(cond) == cond

\* main.rs:710-721: the report of the unhandled platforms
DehydrateReport ==
  /\ pc = "report"
  /\ IF riverdelta.unhandled # {}
     THEN IF ~assert_holds(~opts.allow_unhandled)
          THEN Return("panic") /\ UNCHANGED stdoutStream
          ELSE /\ stdoutStream' = Append(stdoutStream,
                                         [kind |-> "text", name |-> <<"Unhandled:">>])
               /\ Return(Ok)
     ELSE Return(Ok) /\ UNCHANGED stdoutStream
  /\ UNCHANGED <<opts, riverdelta, target, destDir, workDir, tmpDir, disks>>
  /\ UNCHANGED rsyncVars
  /\ UNCHANGED fsVars

NextDehydrate ==
  \/ DehydrateStart
  \/ DehydratePrepare
  \/ \E a \in PoolArtifacts : DehydrateArtifact(a)
  \/ DehydrateFinish
  \/ DehydrateReport

SpecDehydrate == InitDehydrate /\ [][NextDehydrate]_vars

---------------------------------------------------------------------------
(* src/src/download.rs: build_download.  workDir is the directory the      *)
(* images are downloaded into, `disks` holds the files the parallel        *)
(* iterator has not handed to a worker yet, and `writers` the BufWriters   *)
(* of the workers: the file a worker downloads, the statement the worker   *)
(* is at, and whether the BufWriter holds bytes that it has not written to *)
(* its file.  A process can be killed at any statement; the files stay as  *)
(* they are on disk and what the BufWriters held is lost.                  *)

DownloadStreams == {s \in Streams : s \subseteq {QEMU, AWS, METAL}}

\* download.rs:21-44
download_artifacts(rd) ==
  {rd.qemu}
    \cup (IF rd.aws.is_some THEN {rd.aws.val} ELSE {})
    \cup {rd.qemu_rsyncable_artifacts[p] : p \in DOMAIN rd.qemu_rsyncable_artifacts}
    \cup (IF rd.metal.is_some
          THEN {rd.metal.val.pxe.rootfs, rd.metal.val.iso} ELSE {})

\* download.rs:69
temp_name(fname) == Append(fname, "tmp")

\* A BufWriter that goes out of scope writes what it holds, and ignores the
\* error if that fails
drop_flush(name, flushed) == IF flushed THEN incomplete \ {name} ELSE incomplete

Fail(r) == result' = IF result = Running THEN r ELSE result

InitDownload ==
  /\ opts = [command |-> "download"]
  /\ pc = "download"
  /\ riverdelta = NoRiverDelta
  /\ target = "none"
  /\ stdoutStream = <<>>
  /\ destDir = {}
  /\ workDir = {}
  /\ tmpDir = {}
  /\ disks = {}
  /\ result = Running
  /\ incomplete = {}
  /\ writers = {}
  /\ srcBuf = <<>>
  /\ destBuf = <<>>
  /\ chunkBuf = <<>>
  /\ chunkSet = EmptyMap
  /\ deltaRes = RollsumDelta_default
  /\ patchRes = NoPatch
  /\ outBytes = <<>>
  /\ rollsum = Rollsum_new

\* download.rs:10-65: the stream is read, and the files to download are the
\* artifacts that do not exist in the directory
DownloadStart ==
  /\ pc = "download"
  /\ \E io_ok \in BOOLEAN, s \in DownloadStreams :
       IF io_ok
       THEN /\ riverdelta' = RiverDeltaFrom(s)
            /\ disks' = download_artifacts(RiverDeltaFrom(s)) \ workDir
            /\ Goto("pool")
       ELSE Return("Failed to open stream.json") /\ UNCHANGED <<riverdelta, disks>>
  /\ UNCHANGED <<opts, target, stdoutStream, destDir, workDir, tmpDir>>
  /\ UNCHANGED rsyncVars
  /\ UNCHANGED fsVars

\* download.rs:68-70: a worker takes a file and creates its temporary file;
\* after an error no worker takes a new file
DownloadCreate(fname) ==
  /\ pc = "pool"
  /\ result = Running
  /\ fname \in disks
  /\ disks' = disks \ {fname}
  /\ \E io_ok \in BOOLEAN :
       IF io_ok
       THEN /\ workDir' = workDir \cup {temp_name(fname)}
            /\ incomplete' = incomplete \cup {temp_name(fname)}
            /\ writers' = writers \cup {[fname |-> fname, at |-> "copy", held |-> FALSE]}
            /\ UNCHANGED result
       ELSE Fail("File::create failed") /\ UNCHANGED <<workDir, incomplete, writers>>
  /\ UNCHANGED <<pc, opts, riverdelta, target, stdoutStream, destDir, tmpDir>>
  /\ UNCHANGED rsyncVars

\* download.rs:71-73: the response body is copied into the BufWriter, which
\* writes to the temporary file whenever it is full; `held` says whether
\* bytes are left in it when the body ends
DownloadCopy(fname) ==
  /\ pc = "pool"
  /\ \E w \in writers, io_ok \in BOOLEAN, held \in BOOLEAN :
       /\ w.fname = fname
       /\ w.at = "copy"
       /\ IF io_ok
          THEN /\ writers' = (writers \ {w}) \cup {[w EXCEPT !.at = "rename", !.held = held]}
               /\ incomplete' = IF held THEN incomplete
                                ELSE incomplete \ {temp_name(fname)}
               /\ UNCHANGED result
          ELSE /\ writers' = writers \ {w}
               /\ Fail("Failed to download")
               /\ UNCHANGED incomplete
  /\ UNCHANGED <<pc, opts, riverdelta, target, stdoutStream, destDir, workDir,
                 tmpDir, disks>>
  /\ UNCHANGED rsyncVars

\* download.rs:74: the temporary file is renamed to the final name; the
\* BufWriter is still in scope
DownloadRename(fname) ==
  /\ pc = "pool"
  /\ \E w \in writers, io_ok \in BOOLEAN, flushed \in BOOLEAN :
       /\ w.fname = fname
       /\ w.at = "rename"
       /\ IF io_ok
          THEN /\ workDir' = (workDir \ {temp_name(fname)}) \cup {fname}
               /\ incomplete' = IF temp_name(fname) \in incomplete
                                THEN (incomplete \ {temp_name(fname)}) \cup {fname}
                                ELSE incomplete \ {fname}
               /\ writers' = (writers \ {w}) \cup {[w EXCEPT !.at = "drop"]}
               /\ UNCHANGED result
          ELSE /\ writers' = writers \ {w}
               /\ incomplete' = drop_flush(temp_name(fname), flushed)
               /\ Fail("rename failed")
               /\ UNCHANGED workDir
  /\ UNCHANGED <<pc, opts, riverdelta, target, stdoutStream, destDir, tmpDir, disks>>
  /\ UNCHANGED rsyncVars

\* download.rs:75-77: the closure returns Ok and the BufWriter goes out of
\* scope
DownloadDrop(fname) ==
  /\ pc = "pool"
  /\ \E w \in writers, flushed \in BOOLEAN :
       /\ w.fname = fname
       /\ w.at = "drop"
       /\ writers' = writers \ {w}
       /\ incomplete' = drop_flush(fname, flushed)
  /\ UNCHANGED <<pc, opts, riverdelta, target, stdoutStream, destDir, workDir,
                 tmpDir, disks, result>>
  /\ UNCHANGED rsyncVars

\* download.rs:79-94: the workers are done, all files are downloaded or one
\* failed
DownloadFinish ==
  /\ pc = "pool"
  /\ writers = {}
  /\ disks = {} \/ result # Running
  /\ pc' = "done"
  /\ result' = IF result = Running THEN Ok ELSE result
  /\ disks' = {}
  /\ UNCHANGED <<opts, riverdelta, target, stdoutStream, destDir, workDir, tmpDir>>
  /\ UNCHANGED rsyncVars
  /\ UNCHANGED fsVars

\* main.rs:110-122: the process has returned or was killed, and the command
\* is run again in the same directory
DownloadRerun ==
  /\ pc \in {"pool", "done"}
  /\ pc' = "download"
  /\ result' = Running
  /\ riverdelta' = NoRiverDelta
  /\ disks' = {}
  /\ writers' = {}
  /\ UNCHANGED <<opts, target, stdoutStream, destDir, workDir, tmpDir, incomplete>>
  /\ UNCHANGED rsyncVars

DownloadFiles == download_artifacts(RiverDeltaFrom({QEMU, AWS, METAL}))

NextDownload ==
  \/ DownloadStart
  \/ \E fname \in DownloadFiles : DownloadCreate(fname)
  \/ \E fname \in DownloadFiles : DownloadCopy(fname)
  \/ \E fname \in DownloadFiles : DownloadRename(fname)
  \/ \E fname \in DownloadFiles : DownloadDrop(fname)
  \/ DownloadFinish
  \/ DownloadRerun

SpecDownload == InitDownload /\ [][NextDownload]_vars

---------------------------------------------------------------------------
(* src/src/main.rs: rehydrate run again and again in one directory, with   *)
(* the decompression of the qemu image in its two steps, the creation of   *)
(* the file and the copy into it.  A process can be killed at any          *)
(* statement; the files stay as they are on disk.                          *)

\* main.rs:302-316 and 324-330: the qemu image is created in the working
\* directory, under its final name, unless a file of that name exists
RehydrateQemuCreate ==
  /\ pc = "qemu"
  /\ LET qemu_fn == uncompressed_name(riverdelta.qemu)
     IN  IF opts.disk = <<>> \/ qemu_fn \in workDir
         THEN /\ disks' = SeqToSet(opts.disk) \ {QEMU}
              /\ Goto("vmware")
              /\ UNCHANGED <<workDir, incomplete>>
         ELSE \E io_ok \in BOOLEAN :
                IF io_ok
                THEN /\ workDir' = workDir \cup {qemu_fn}
                     /\ incomplete' = incomplete \cup {qemu_fn}
                     /\ Goto("qemu_copy")
                     /\ UNCHANGED disks
                ELSE /\ Return("Opening qemu destination")
                     /\ UNCHANGED <<workDir, incomplete, disks>>
  /\ UNCHANGED <<opts, riverdelta, target, stdoutStream, destDir, tmpDir, writers>>
  /\ UNCHANGED rsyncVars

\* main.rs:317-330: the image is decompressed into the file and the
\* BufWriter flushed
RehydrateQemuCopy ==
  /\ pc = "qemu_copy"
  /\ \E io_ok \in BOOLEAN :
       IF io_ok
       THEN /\ incomplete' = incomplete \ {uncompressed_name(riverdelta.qemu)}
            /\ disks' = SeqToSet(opts.disk) \ {QEMU}
            /\ Goto("vmware")
       ELSE /\ Return("Failed to decompress qemu")
            /\ UNCHANGED <<incomplete, disks>>
  /\ UNCHANGED <<opts, riverdelta, target, stdoutStream, destDir, workDir, tmpDir,
                 writers>>
  /\ UNCHANGED rsyncVars

\* main.rs:110-135: the process has returned or was killed, and the command
\* is run again in the same directory
RehydrateRerun ==
  /\ pc # "rehydrate"
  /\ pc' = "rehydrate"
  /\ result' = Running
  /\ riverdelta' = NoRiverDelta
  /\ target' = "none"
  /\ stdoutStream' = <<>>
  /\ tmpDir' = {}
  /\ disks' = {}
  /\ UNCHANGED <<opts, destDir, workDir>>
  /\ UNCHANGED rsyncVars
  /\ UNCHANGED fsVars

NextRehydrateRuns ==
  \/ RehydrateStart
  \/ RehydrateIso
  \/ RehydratePxe
  \/ RehydrateQemuCreate
  \/ RehydrateQemuCopy
  \/ RehydrateVmware
  \/ \E disk \in DiskNames : RehydrateDisk(disk)
  \/ RehydrateReport
  \/ RehydrateFinish
  \/ RehydrateRerun

SpecRehydrateRuns == InitRehydrate /\ [][NextRehydrateRuns]_vars

---------------------------------------------------------------------------
(* Properties.  Auxiliary notions first.                                   *)

\* The chunks of a chunk set, over all buckets
ChunkList(map) == UNION {{map[id][k] : k \in 1..Len(map[id])} : id \in DOMAIN map}

\* The partition of the destination buffer
DestChunks == ChunkList(rollsum_chunks_crc32(destBuf))

\* The delta the call computed
Computed == pc \in {"delta", "patch"}
TheDelta == IF pc = "patch" THEN patchRes.delta ELSE deltaRes

\* The literal blob: the concatenation of the unique unmatched chunks
RECURSIVE Concat(_, _)
Concat(bufs, k) == IF k > Len(bufs) THEN <<>> ELSE bufs[k] \o Concat(bufs, k + 1)

LiteralBlob(d) == Concat(d.unmatched_chunks, 1)

\* Replaying an instruction list on a source and a literal blob
PatchEntryBytes(e, source, literal_blob) ==
  IF e.tag = "CopySource"
  THEN SubSeq(source, e.start + 1, e.start + e.len)
  ELSE SubSeq(literal_blob, e.start + 1, e.start + e.len)

RECURSIVE Replay(_, _, _, _)
Replay(chunks, k, source, literal_blob) ==
  IF k > Len(chunks) THEN <<>>
  ELSE PatchEntryBytes(chunks[k], source, literal_blob)
         \o Replay(chunks, k + 1, source, literal_blob)

\* The length of the entry of the delta d at the destination offset o
EntryLen(d, o) ==
  IF o \in DOMAIN d.matched THEN Len(d.matched[o].buf)
  ELSE Len(d.unmatched_chunks[d.unmatched[o] + 1])

RECURSIVE SumOver(_, _)
SumOver(S, f) ==
  IF S = {} THEN 0
  ELSE LET x == CHOOSE y \in S : TRUE IN f[x] + SumOver(S \ {x}, f)

\* The ranges [start, start + len) of the chunks in S tile [0, n)
Tiles(S, n) ==
  /\ \A c \in S : Len(c.buf) >= 1
  /\ \A c1, c2 \in S : c1.start = c2.start => c1 = c2
  /\ \A c \in S : c.start = 0 \/ \E c0 \in S : c0.start + Len(c0.buf) = c.start
  /\ \A c \in S : c.start + Len(c.buf) = n \/ \E c1 \in S : c1.start = c.start + Len(c.buf)
  /\ (n > 0) => \E c \in S : c.start = 0

(* C1: replaying the instruction list of create_patchfile on the source    *)
(* and the literal blob yields the destination.                            *)
C1_RoundTrip ==
  (pc = "patch" /\ patchRes.result.is_some) =>
    Replay(patchRes.patch.chunks, 1, srcBuf, LiteralBlob(patchRes.delta)) = destBuf

(* C2: the instruction list is in strictly increasing destination-offset   *)
(* order: its k-th instruction was generated for the k-th destination      *)
(* chunk.                                                                  *)
C2_DestinationOrder ==
  (pc = "patch" /\ patchRes.result.is_some) =>
    [k \in 1..Len(patchRes.pushed) |-> patchRes.pushed[k][1]]
      = btree_keys(DOMAIN patchRes.delta.matched \cup DOMAIN patchRes.delta.unmatched)

(* C3: the stream written is the magic, the literal length L as u64 LE,    *)
(* the L literal bytes, and the serialized instruction list.               *)
C3_StreamLayout ==
  (pc = "patch" /\ patchRes.result.is_some) =>
    outBytes = HEADER \o le_bytes(Len(LiteralBlob(patchRes.delta)), 8)
                 \o LiteralBlob(patchRes.delta)
                 \o serialize_patch(patchRes.patch)

(* C4: every matched entry is byte-exact: the source chunk it names has    *)
(* the length of the destination chunk at that offset and the same bytes,  *)
(* whatever chunks share its ChunkId.                                      *)
C4_MatchedByteExact ==
  Computed =>
    \A o \in DOMAIN TheDelta.matched :
      LET c == TheDelta.matched[o]
          n == Len(c.buf)
      IN  /\ \E dc \in DestChunks : dc.start = o /\ Len(dc.buf) = n
          /\ c.start + n <= Len(srcBuf)
          /\ SubSeq(srcBuf, c.start + 1, c.start + n) = c.buf
          /\ SubSeq(destBuf, o + 1, o + n) = c.buf

\* a destination chunk whose first candidate had its ChunkId but other bytes,
\* matched with the second candidate
C4_Witness ==
  /\ pc = "delta"
  /\ deltaRes.stats.chunkid_collision > 0
  /\ \E o \in DOMAIN deltaRes.matched :
       /\ deltaRes.matched[o].start = Len(deltaRes.matched[o].buf)
       /\ SubSeq(srcBuf, 1, Len(deltaRes.matched[o].buf)) # deltaRes.matched[o].buf
       /\ crc32(SubSeq(srcBuf, 1, Len(deltaRes.matched[o].buf)))
            = crc32(deltaRes.matched[o].buf)

(* C5: the keys of matched and unmatched are disjoint, together they are   *)
(* the destination chunk offsets, and the entries' ranges tile the         *)
(* destination.                                                            *)
C5_DeltaPartition ==
  Computed =>
    LET keys == DOMAIN TheDelta.matched \cup DOMAIN TheDelta.unmatched
    IN  /\ DOMAIN TheDelta.matched \cap DOMAIN TheDelta.unmatched = {}
        /\ keys = {dc.start : dc \in DestChunks}
        /\ Tiles({[start |-> o, buf |-> Zeros(EntryLen(TheDelta, o))] : o \in keys},
                 Len(destBuf))

C5_Witness ==
  /\ pc = "delta"
  /\ Cardinality(DOMAIN deltaRes.matched) >= 2
  /\ DOMAIN deltaRes.unmatched # {}

(* C6: the chunks of a buffer have pairwise distinct start offsets,        *)
(* increasing inside each bucket, each is at least one byte long and holds *)
(* the buffer's bytes at its offset, and they tile the buffer; the empty   *)
(* buffer has no chunk.  The call returns on every input.                  *)
C6_ChunkPartition ==
  /\ pc = "start" => ENABLED RollsumChunksCrc32
  /\ pc = "chunks" =>
       /\ Tiles(ChunkList(chunkSet), Len(chunkBuf))
       /\ \A c \in ChunkList(chunkSet) :
            c.buf = SubSeq(chunkBuf, c.start + 1, c.start + Len(c.buf))
       /\ \A id \in DOMAIN chunkSet :
            /\ Len(chunkSet[id]) >= 1
            /\ \A k \in 1..(Len(chunkSet[id]) - 1) :
                 chunkSet[id][k].start < chunkSet[id][k + 1].start
       /\ (chunkBuf = <<>>) => (chunkSet = EmptyMap)

\* several chunks in several buckets, one of them cut at the cap
C6_Witness ==
  /\ pc = "chunks"
  /\ Cardinality(DOMAIN chunkSet) >= 2
  /\ \E c \in ChunkList(chunkSet) : Len(c.buf) = ROLLSUM_BLOB_MAX

(* C7: no chunk is longer than ROLLSUM_BLOB_MAX.                           *)
C7_BoundaryCap ==
  pc = "chunks" => \A c \in ChunkList(chunkSet) : Len(c.buf) <= ROLLSUM_BLOB_MAX

\* a buffer whose first boundary lies beyond the cap: the first chunk is cut
\* at the cap and the block that ends in the boundary follows
C7_Witness ==
  /\ pc = "chunks"
  /\ Len(chunkBuf) > ROLLSUM_BLOB_MAX
  /\ \E c \in ChunkList(chunkSet) : c.start = 0 /\ Len(c.buf) = ROLLSUM_BLOB_MAX
  /\ \E c \in ChunkList(chunkSet) :
       c.start = ROLLSUM_BLOB_MAX /\ c.buf = BoundaryBlock

(* C8: no two unique unmatched buffers are byte-identical; the payload of  *)
(* an unmatched destination chunk occurs exactly once among them; and the  *)
(* CopyBuf instructions of byte-identical unmatched chunks carry the same  *)
(* literal offset and length.                                              *)
C8_DedupCorrect ==
  (pc = "patch" /\ patchRes.result.is_some) =>
    LET d  == patchRes.delta
        uc == d.unmatched_chunks
    IN  /\ \A i, j \in 1..Len(uc) : uc[i] = uc[j] => i = j
        /\ \A dc \in DestChunks :
             dc.start \in DOMAIN d.unmatched =>
               Cardinality({i \in 1..Len(uc) : uc[i] = dc.buf}) = 1
        /\ \A dc1, dc2 \in DestChunks :
             (dc1.start \in DOMAIN d.unmatched /\ dc2.start \in DOMAIN d.unmatched
                /\ dc1.buf = dc2.buf) =>
               \A k1, k2 \in 1..Len(patchRes.pushed) :
                 (patchRes.pushed[k1][1] = dc1.start /\ patchRes.pushed[k2][1] = dc2.start)
                   => /\ patchRes.pushed[k1][2] = patchRes.pushed[k2][2]
                      /\ patchRes.pushed[k1][2].tag = "CopyBuf"

\* two byte-identical unmatched chunks, and unmatched chunks of two buckets
C8_Witness ==
  /\ pc = "patch"
  /\ Len(patchRes.delta.unmatched_chunks) >= 2
  /\ \E o1, o2 \in DOMAIN patchRes.delta.unmatched :
       o1 # o2 /\ patchRes.delta.unmatched[o1] = patchRes.delta.unmatched[o2]

(* C9: matched_size + unmatched_size = len(destination) = dest_size, with  *)
(* unmatched_size the total length of the unmatched chunks before          *)
(* deduplication.                                                          *)
C9_StatsConsistent ==
  Computed =>
    LET d == TheDelta
    IN  /\ d.stats.matched_size + d.stats.unmatched_size = Len(destBuf)
        /\ d.stats.dest_size = Len(destBuf)
        /\ d.stats.unmatched_size
             = SumOver(DOMAIN d.unmatched,
                       [o \in DOMAIN d.unmatched |-> EntryLen(d, o)])
        /\ d.stats.matched_size
             = SumOver(DOMAIN d.matched, [o \in DOMAIN d.matched |-> EntryLen(d, o)])

\* matched chunks, a hash miss, and an unmatched chunk that is a duplicate
C9_Witness ==
  /\ pc = "delta"
  /\ deltaRes.stats.matched_size > 0
  /\ deltaRes.stats.crc_miss > 0
  /\ Cardinality(DOMAIN deltaRes.unmatched) > Len(deltaRes.unmatched_chunks)

(* C10, as stated: the delta of a non-empty buffer with itself is one      *)
(* matched entry 0 -> (source offset 0, the whole buffer) and nothing      *)
(* unmatched; the delta of two empty buffers is empty.                     *)
C10_IdentityOneEntry ==
  (Computed /\ srcBuf = destBuf) =>
    /\ DOMAIN TheDelta.unmatched = {}
    /\ TheDelta.stats.unmatched_size = 0
    /\ (destBuf # <<>>) =>
         TheDelta.matched = (0 :> [buf |-> srcBuf, start |-> 0])
    /\ (destBuf = <<>>) => DOMAIN TheDelta.matched = {}

(* C10, amended: the delta of a buffer with itself has a matched entry for *)
(* every chunk of the buffer and nothing unmatched; each entry names a     *)
(* source chunk at or before the destination offset; the entries cover the *)
(* whole buffer; there is one entry 0 -> (0, whole buffer) when the buffer *)
(* is a single chunk, and none when it is empty.                           *)
C10_IdentityAllMatched ==
  (Computed /\ srcBuf = destBuf) =>
    /\ DOMAIN TheDelta.unmatched = {}
    /\ TheDelta.unmatched_chunks = <<>>
    /\ TheDelta.stats.unmatched_size = 0
    /\ TheDelta.stats.matched_size = Len(destBuf)
    /\ DOMAIN TheDelta.matched = {dc.start : dc \in DestChunks}
    /\ \A o \in DOMAIN TheDelta.matched : TheDelta.matched[o].start <= o
    /\ (Cardinality(DestChunks) = 1) =>
         TheDelta.matched = (0 :> [buf |-> srcBuf, start |-> 0])
    /\ (destBuf = <<>>) => DOMAIN TheDelta.matched = {}

\* a buffer of several chunks diffed against itself
C10_Witness ==
  /\ pc = "delta"
  /\ srcBuf = destBuf
  /\ Cardinality(DOMAIN deltaRes.matched) >= 2

\* The partition of the source buffer
SrcChunks == ChunkList(rollsum_chunks_crc32(srcBuf))

(* C11: when no destination chunk is byte-identical to a source chunk (in  *)
(* particular when the source is empty), matched is empty, matched_size is *)
(* 0, every destination chunk is in unmatched and unmatched_size is the    *)
(* destination's length.                                                   *)
C11_DisjointCase ==
  (Computed /\ \A dc \in DestChunks : \A sc \in SrcChunks : sc.buf # dc.buf) =>
    /\ DOMAIN TheDelta.matched = {}
    /\ TheDelta.stats.matched_size = 0
    /\ DOMAIN TheDelta.unmatched = {dc.start : dc \in DestChunks}
    /\ TheDelta.stats.unmatched_size = Len(destBuf)

\* a non-empty source, a destination of several chunks none of which the
\* source has, one of them with the ChunkId of a source chunk
C11_Witness ==
  /\ pc = "delta"
  /\ srcBuf # <<>>
  /\ \A dc \in DestChunks : \A sc \in SrcChunks : sc.buf # dc.buf
  /\ deltaRes.stats.chunkid_collision > 0
  /\ deltaRes.stats.crc_miss > 0

(* C12: the results of rollsum_delta and create_patchfile on a given       *)
(* source and destination are the same in every run, whatever the          *)
(* iteration order of the hash maps: the same delta (matched, unmatched,   *)
(* order of unmatched_chunks, stats), the same instruction list and the    *)
(* same bytes written.                                                     *)
C12_Deterministic ==
  /\ pc = "delta" => rollsum_delta(srcBuf, destBuf) = {deltaRes}
  /\ pc = "patch" =>
       \A p \in create_patchfile(srcBuf, destBuf) :
         /\ p.delta = patchRes.delta
         /\ p.patch = patchRes.patch
         /\ p.out = outBytes

(* C18: dest_duplicates is the number of unmatched destination chunks that *)
(* deduplication eliminated: the entries of unmatched minus the unique     *)
(* buffers of unmatched_chunks.                                            *)
C18_DestDuplicates ==
  Computed =>
    TheDelta.stats.dest_duplicates
      = Cardinality(DOMAIN TheDelta.unmatched) - Len(TheDelta.unmatched_chunks)

(* C19: src_chunks and dest_chunks are the numbers of chunks of the source *)
(* and of the destination.                                                 *)
C19_ChunkCounts ==
  Computed =>
    /\ TheDelta.stats.src_chunks = Cardinality(SrcChunks)
    /\ TheDelta.stats.dest_chunks = Cardinality(DestChunks)

(* C20: a destination chunk that is byte-identical to some source chunk is *)
(* matched and is not in unmatched, whatever other source chunks share its *)
(* ChunkId and wherever they stand among the candidates.                   *)
C20_MatchComplete ==
  Computed =>
    \A dc \in DestChunks :
      (\E sc \in SrcChunks : sc.buf = dc.buf) =>
        /\ dc.start \in DOMAIN TheDelta.matched
        /\ dc.start \notin DOMAIN TheDelta.unmatched
        /\ TheDelta.matched[dc.start].buf = dc.buf

\* two destination chunks with one ChunkId, each matched, one of them after
\* a candidate with other bytes
C20_Witness ==
  /\ pc = "delta"
  /\ deltaRes.stats.chunkid_collision > 0
  /\ \E o1, o2 \in DOMAIN deltaRes.matched :
       /\ deltaRes.matched[o1].buf = BoundaryBlock
       /\ deltaRes.matched[o2].buf = CollidingBlock

\* In a state of SpecFlip: the offset of the flipped byte
FlipOffset ==
  CHOOSE i \in 0..(Len(srcBuf) - 1) : srcBuf[i + 1] # destBuf[i + 1]

\* The start of the first of the chunks that holds or follows the offset i or
\* does not end at a boundary the rolling checksum signals
FirstUnstable(chunks, i) ==
  LET unstable == {c.start : c \in {sc \in chunks :
                      \/ sc.start + Len(sc.buf) > i
                      \/ bupsplit_find_ofs(sc.buf) # Some(Len(sc.buf))}}
  IN  CHOOSE m \in unstable : \A y \in unstable : m <= y

---------------------------------------------------------------------------
(* rehydrate and build_dehydrate.                                          *)

\* The file rehydrate generates for a requested disk
RequestedDisk(d) ==
  IF d = QEMU THEN uncompressed_name(riverdelta.qemu)
  ELSE IF d = VMWARE THEN riverdelta.vmware.val
  ELSE uncompressed_name(get_rsyncable(riverdelta, d).val)

\* The files the options ask for
RequestedImages ==
  (IF opts.iso THEN {riverdelta.metal.val.iso} ELSE {})
    \cup (IF opts.pxe
          THEN LET pxe == riverdelta.metal.val.pxe
               IN  {pxe.kernel, pxe.initramfs, pxe.rootfs}
          ELSE {})
    \cup {RequestedDisk(d) : d \in SeqToSet(opts.disk)}

\* The file is in the dest directory, or was written to standard output as
\* the raw image or as a tar entry
Delivered(name) ==
  \/ target = "Directory" /\ name \in destDir
  \/ /\ target \in {"Stdout", "Tar"}
     /\ \E i \in 1..Len(stdoutStream) :
          /\ stdoutStream[i].kind \in {"image", "tar_entry"}
          /\ stdoutStream[i].name = name

\* C14: when rehydrate returns Ok, every image it was asked for (each --disk
\* platform, qemu and the VMDK-based aws included, the ISO, the PXE files)
\* has been delivered to the output target.
C14_Delivered ==
  (opts.command = "rehydrate" /\ result = Ok) =>
    \A name \in RequestedImages : Delivered(name)

\* The number of files the options select
SelectedFiles(o) ==
  Cardinality(SeqToSet(o.disk)) + (IF o.iso THEN 1 ELSE 0) + (IF o.pxe THEN 3 ELSE 0)

\* The number of raw images written to standard output
RawImages == Cardinality({i \in 1..Len(stdoutStream) : stdoutStream[i].kind = "image"})

\* C15: with dest "-", options that select two or more files give the Tar
\* target, and under the raw Stdout target at most one image is written to
\* standard output.
C15_TarWhenMultiple ==
  (opts.command = "rehydrate" /\ opts.dest = "-" /\ target # "none") =>
    /\ SelectedFiles(opts) > 1 => target = "Tar"
    /\ target = "Stdout" => RawImages <= 1

\* C16: with dest "-", everything rehydrate writes to standard output is the
\* image or part of the tar stream; no text is written to it.
C16_StdoutOnlyImages ==
  (opts.command = "rehydrate" /\ opts.dest = "-") =>
    \A i \in 1..Len(stdoutStream) :
      stdoutStream[i].kind \in {"image", "tar_entry", "tar_end"}

\* C17: with allow_unhandled set and a stream with an unhandled platform,
\* build_dehydrate neither panics nor returns the error about unhandled
\* artifacts.
C17_AllowUnhandledOk ==
  (/\ opts.command = "dehydrate"
   /\ opts.allow_unhandled
   /\ riverdelta.parsed
   /\ riverdelta.unhandled # {}) =>
    result \notin {"panic", "Unhandled artifacts"}

---------------------------------------------------------------------------
(* The matcher and the chunker, continued.                                 *)

(* C21: the source chunk recorded for a matched destination chunk is the   *)
(* byte-identical source chunk with the smallest start offset, and         *)
(* matched_size is the sum of the lengths of the matched chunks, each      *)
(* counted once.                                                           *)
C21_FirstMatchWins ==
  (Computed /\ TheDelta.panic = "none") =>
    /\ \A dc \in DestChunks :
         dc.start \in DOMAIN TheDelta.matched =>
           /\ TheDelta.matched[dc.start].buf = dc.buf
           /\ TheDelta.matched[dc.start] \in SrcChunks
           /\ \A sc \in SrcChunks :
                sc.buf = dc.buf => TheDelta.matched[dc.start].start <= sc.start
    /\ TheDelta.stats.matched_size
         = SumOver(DOMAIN TheDelta.matched,
                   [o \in DOMAIN TheDelta.matched |-> Len(TheDelta.matched[o].buf)])

\* the source has the same chunk twice and the destination has it twice
C21_Witness ==
  /\ pc = "delta"
  /\ \E s1, s2 \in SrcChunks : s1.start < s2.start /\ s1.buf = s2.buf
  /\ \E o1, o2 \in DOMAIN deltaRes.matched :
       /\ o1 < o2
       /\ deltaRes.matched[o1] = deltaRes.matched[o2]
       /\ deltaRes.matched[o1].start = 0
       /\ deltaRes.stats.matched_size = 2 * Len(deltaRes.matched[o1].buf)

\* A chunker that keeps one Rollsum for the whole buffer: the bytes lo .. hi-1
\* of buf are rolled into st.r one by one, left half first, and a chunk ends
\* after a byte where the boundary test holds or where the chunk has
\* ROLLSUM_BLOB_MAX bytes; st.start is the start of the current chunk
RECURSIVE continuous_loop(_, _, _, _)
continuous_loop(st, buf, lo, hi) ==
  IF lo >= hi THEN st
  ELSE IF hi - lo = 1 THEN
    LET r2 == Rollsum_roll(st.r, buf[lo + 1])
    IN  IF \/ BitAndLow(r2.s2, BUP_BLOBSIZE - 1) = BitAndLow(U32_MAX, BUP_BLOBSIZE - 1)
           \/ lo + 1 - st.start = ROLLSUM_BLOB_MAX
        THEN [ r |-> r2, start |-> lo + 1,
               chunks |-> st.chunks \cup
                 {[start |-> st.start, buf |-> SubSeq(buf, st.start + 1, lo + 1)]} ]
        ELSE [st EXCEPT !.r = r2]
  ELSE
    LET mid   == (lo + hi) \div 2
        first == continuous_loop(st, buf, lo, mid)
    IN  IF first.start >= 0 THEN continuous_loop(first, buf, mid, hi) ELSE first

ContinuousChunks(buf) ==
  LET st == continuous_loop([r |-> Rollsum_new, start |-> 0, chunks |-> {}],
                            buf, 0, Len(buf))
  IN  IF st.start < Len(buf)
      THEN st.chunks \cup {[start |-> st.start, buf |-> SubSeq(buf, st.start + 1, Len(buf))]}
      ELSE st.chunks

(* C22: the chunks of a buffer are those of a chunker that initialises the *)
(* rolling checksum once, at the start of the buffer, and carries it       *)
(* across the chunk boundaries.                                            *)
C22_SingleChecksum ==
  pc = "chunks" => ChunkList(chunkSet) = ContinuousChunks(chunkBuf)

(* C23: bupsplit_find_ofs returns no offset below the window size of 64,   *)
(* so a chunk that ends at a boundary of the checksum, not at the end of   *)
(* the buffer nor at the cap, has at least 64 bytes.                       *)
C23_FullWindow ==
  pc = "chunks" =>
    /\ \A found \in {bupsplit_find_ofs(chunkBuf)} :
         found.is_some => found.val >= BUP_WINDOWSIZE
    /\ \A c \in ChunkList(chunkSet) :
         (c.start + Len(c.buf) < Len(chunkBuf) /\ Len(c.buf) < ROLLSUM_BLOB_MAX) =>
           Len(c.buf) >= BUP_WINDOWSIZE

\* The last BUP_WINDOWSIZE bytes of the sequence, zero bytes before it when
\* it is shorter
LastWindow(seq) ==
  LET padded == Zeros(BUP_WINDOWSIZE) \o seq
  IN  SubSeq(padded, Len(padded) - BUP_WINDOWSIZE + 1, Len(padded))

RECURSIVE roll_all(_, _, _)
roll_all(r, buf, k) ==
  IF k > Len(buf) THEN r
  ELSE LET r2 == Rollsum_roll(r, buf[k])
       IN  IF r2.wofs >= 0 THEN roll_all(r2, buf, k + 1) ELSE r2

(* C24: after Rollsum::new() and roll() of a byte sequence, s1, s2 and the *)
(* digest are those of a new Rollsum rolled over the last 64 bytes of the  *)
(* sequence, padded on the left with zero bytes when it is shorter; and    *)
(* the next roll() does not overflow: its product fits in a u32 and its    *)
(* window index is inside the window.                                      *)
C24_WindowOnly ==
  pc \in {"sum", "digest"} =>
    /\ \A w \in {roll_all(Rollsum_new, LastWindow(chunkBuf), 1)} :
         /\ rollsum.s1 = w.s1
         /\ rollsum.s2 = w.s2
         /\ Rollsum_digest(rollsum) = Rollsum_digest(w)
    /\ rollsum.wofs \in 0..(BUP_WINDOWSIZE - 1)
    /\ (BUP_WINDOWSIZE * (rollsum.window[rollsum.wofs] + ROLLSUM_CHAR_OFFSET))
         \div Half < Half

\* more than a window has been rolled, the first byte rolled was not zero,
\* and the last roll dropped a byte larger than the one it added
C24_Witness ==
  /\ pc = "sum"
  /\ Len(chunkBuf) > BUP_WINDOWSIZE
  /\ chunkBuf[1] # 0
  /\ chunkBuf[Len(chunkBuf) - BUP_WINDOWSIZE] > chunkBuf[Len(chunkBuf)]

\* The lowest destination offset at which an unmatched chunk has the payload
FirstSeen(d, payload) ==
  LET S == {dc.start : dc \in {c \in DestChunks :
                                 c.start \in DOMAIN d.unmatched /\ c.buf = payload}}
  IN  CHOOSE o \in S : \A o2 \in S : o <= o2

(* C25: unmatched_chunks lists the unique unmatched payloads in the order  *)
(* of their first occurrence in the destination: a payload first seen at a *)
(* lower destination offset stands earlier in unmatched_chunks.            *)
C25_FirstSeenOrder ==
  (Computed /\ TheDelta.panic = "none") =>
    \A i, j \in 1..Len(TheDelta.unmatched_chunks) :
      FirstSeen(TheDelta, TheDelta.unmatched_chunks[i])
          < FirstSeen(TheDelta, TheDelta.unmatched_chunks[j])
        => i < j

(* C26: rollsum_delta reaches neither the panic "Duplicate destination     *)
(* offset" nor a failure of assert!(len > 0): the offset of a destination  *)
(* chunk is vacant in matched whenever it is looked up, destination chunk  *)
(* offsets being unique.                                                   *)
C26_NoDuplicateOffset ==
  Computed =>
    /\ TheDelta.panic \notin {"Duplicate destination offset", "assertion failed: len > 0"}
    /\ \A c1, c2 \in DestChunks : c1.start = c2.start => c1 = c2
    /\ \A c \in SrcChunks : Len(c.buf) > 0

\* several destination chunks were matched, one of them after the lookup
\* for a candidate with other bytes
C26_Witness ==
  /\ pc = "delta"
  /\ Cardinality(DOMAIN deltaRes.matched) >= 2
  /\ deltaRes.stats.chunkid_collision > 0
  /\ deltaRes.stats.matched_size = Len(destBuf)

\* The chunks with their starts moved by k
Shifted(chunks, k) == {[start |-> c.start + k, buf |-> c.buf] : c \in chunks}

(* C27: from every chunk start k of a buffer on, the chunks of the buffer  *)
(* are the chunks of the buffer's suffix from k, chunked as a buffer of    *)
(* its own, with the offsets moved by k.                                   *)
C27_SuffixChunks ==
  pc = "chunks" =>
    \A chunks \in {ChunkList(chunkSet)} :
      \A k \in {c.start : c \in chunks} :
        {c \in chunks : c.start >= k}
          = Shifted(ChunkList(rollsum_chunks_crc32(
                                SubSeq(chunkBuf, k + 1, Len(chunkBuf)))), k)

\* The destination chunk that starts at the offset o
DestChunkAt(o) == CHOOSE dc \in DestChunks : dc.start = o

(* C28: every entry o -> i of unmatched has a valid index i, and           *)
(* unmatched_chunks[i] is the destination chunk that starts at o; the      *)
(* range of every CopyBuf instruction lies inside the literal blob and     *)
(* holds the bytes of its destination chunk, and the range of every        *)
(* CopySource instruction lies inside the source.                          *)
C28_RangesValid ==
  (Computed /\ TheDelta.panic = "none") =>
    /\ \A o \in DOMAIN TheDelta.unmatched :
         /\ TheDelta.unmatched[o] \in 0..(Len(TheDelta.unmatched_chunks) - 1)
         /\ o \in {dc.start : dc \in DestChunks}
         /\ TheDelta.unmatched_chunks[TheDelta.unmatched[o] + 1] = DestChunkAt(o).buf
    /\ pc = "patch" =>
         \A blob \in {LiteralBlob(patchRes.delta)} :
           \A k \in 1..Len(patchRes.pushed) :
             LET o == patchRes.pushed[k][1]
                 e == patchRes.pushed[k][2]
             IN  /\ e = patchRes.patch.chunks[k]
                 /\ e.start >= 0
                 /\ e.tag = "CopyBuf" =>
                      /\ e.start + e.len <= Len(blob)
                      /\ e.start + e.len <= patchRes.buflen
                      /\ SubSeq(blob, e.start + 1, e.start + e.len) = DestChunkAt(o).buf
                 /\ e.tag = "CopySource" => e.start + e.len <= Len(srcBuf)

\* unmatched chunks of two buckets, so that a CopyBuf starts inside the
\* literal blob, next to a CopySource
C28_Witness ==
  /\ pc = "patch"
  /\ patchRes.delta.panic = "none"
  /\ \E o1, o2 \in DOMAIN patchRes.delta.unmatched :
       Len(DestChunkAt(o1).buf) # Len(DestChunkAt(o2).buf)
  /\ \E k \in 1..Len(patchRes.patch.chunks) :
       patchRes.patch.chunks[k].tag = "CopyBuf" /\ patchRes.patch.chunks[k].start > 0
  /\ \E k \in 1..Len(patchRes.patch.chunks) :
       patchRes.patch.chunks[k].tag = "CopySource"

\* C29: in build_download a file is under its final name only once its
\* complete content is on disk: no artifact's file name is ever the name of
\* a file that lacks bytes (which a later run would skip as downloaded)
C29_CompleteUnderFinalName ==
  \A fname \in DownloadFiles : fname \in workDir => fname \notin incomplete

\* A worker of rehydrate is about to read the qemu image as the source of a
\* patch: rehydrate_ova (main.rs:332-339) or rsync::apply (main.rs:342-353)
AppliesPatch ==
  \/ pc = "vmware" /\ VMWARE \in disks /\ riverdelta.vmware.is_some
  \/ /\ pc = "disks"
     /\ \E disk \in disks :
          disk \notin riverdelta.unhandled /\ get_rsyncable(riverdelta, disk).is_some

\* C30: rehydrate never uses a partially decompressed qemu image as the
\* source of a patch, not even in a run after one that was interrupted while
\* decompressing: whenever a patch is about to be applied, the qemu image is
\* in the working directory with all its content
C30_CompleteBaseImage ==
  AppliesPatch =>
    /\ uncompressed_name(riverdelta.qemu) \in workDir
    /\ uncompressed_name(riverdelta.qemu) \notin incomplete

=============================================================================
